---- MODULE Spec2Model ----
(***************************************************************************)
(* CLOAKmatch: private set intersection with encrypted metadata.           *)
(*                                                                         *)
(* The model covers one dataset ("D") on the server (private key, index,  *)
(* hash-chained change log), the /sync_data handler, and one client        *)
(* replica (local log, active index) with its sync and query commands.     *)
(* The audit files of a sync appear only through the failure of their      *)
(* write.                                                                  *)
(*                                                                         *)
(* Representation.  Files are sequences of lines; a line is the sequence   *)
(* of its tokens (whitespace separated for the logs, comma separated for   *)
(* the index and the active index), so a blank line is << >>.  Byte        *)
(* strings are symbolic terms written as strings: SHA512(m) is the term    *)
(* "<m>" (collision free), an AEAD ciphertext is the term of its key,      *)
(* nonce, associated data and plaintext, and hex encoding prefixes "x".    *)
(* Random values (keys, nonces) are fresh: a counter hands out values      *)
(* never used before.  The ristretto255 group is modelled as the additive  *)
(* group of integers modulo the prime GroupOrder.                          *)
(***************************************************************************)
EXTENDS Integers, Sequences, FiniteSets, TLC

(***************************************************************************)
(* Bounds of the model                                                     *)
(***************************************************************************)
MaxSrc == 2
MaxNonce == 2
MaxKey == 2
MaxCliLog == 3
MaxRunLog == 3

GroupOrder == 5

DataName == "D"
IOCS == {"a", "b"}
METAS == {"m1", "m2"}
None == "None"

(***************************************************************************)
(* Generic helpers                                                         *)
(***************************************************************************)
Range(s) == {s[i] : i \in 1..Len(s)}

SeqsUpTo(S, n) == UNION {[1..k -> S] : k \in 0..n}

\* position of the last occurrence of x in s (0 when absent)
LastPos(s, x) ==
    IF \E i \in 1..Len(s) : s[i] = x
    THEN CHOOSE i \in 1..Len(s) : s[i] = x /\ \A j \in (i+1)..Len(s) : s[j] # x
    ELSE 0

\* position of the first occurrence of character c in string s (0 when absent)
RECURSIVE FindChar(_, _, _)
FindChar(s, c, i) ==
    IF i > Len(s) THEN 0
    ELSE IF SubSeq(s, i, i) = c THEN i
    ELSE FindChar(s, c, i + 1)

(***************************************************************************)
(* shared/crypto_tools.py                                                  *)
(***************************************************************************)
ZeroHash == "0"

SHA512(m) == "<" \o m \o ">"

Hex(b) == "x" \o b

IsHex(h) == Len(h) >= 1 /\ SubSeq(h, 1, 1) = "x"

FromHex(h) == SubSeq(h, 2, Len(h))

\* a hex string of 128 characters: the encoding of a SHA-512 digest
IsDigestHex(h) == Len(h) >= 2 /\ SubSeq(h, 1, 2) = "x<"

\* 32 random bytes: a key different from the keys drawn before it
\* variant: the same bytes are drawn again
generate_ristretto255_private_key_again(drawn) == drawn

generate_ristretto255_private_key(drawn) == drawn + 1

\* H1: SHA512(DST || x) mapped to a (non-zero) group element
IocCode(x) == CASE x = "a" -> 1 [] x = "b" -> 2 [] OTHER -> 3

ristretto_hash_to_group(data_name, x) == (IocCode(x) * 2) % GroupOrder

ristretto_scalarmult(scalar, point) == (scalar * point) % GroupOrder

\* 32-byte strings handed in as points: the group elements, the identity (0)
\* and a string that is not the encoding of an element (GroupOrder)
PointBytes == 0..GroupOrder

\* crypto_scalarmult_ristretto255 returns non-zero: the point does not decode
\* or the product is the identity; ristretto_scalarmult then raises
scalarmult_rejects(scalar, point) ==
    \/ point \notin 0..(GroupOrder - 1)
    \/ (scalar * point) % GroupOrder = 0

\* variant: the scalar itself is returned
ristretto_scalar_invert_same(x) == x

ristretto_scalar_invert(x) ==
    CHOOSE y \in 1..(GroupOrder - 1) : (x * y) % GroupOrder = 1

evaluate_blinded_point(sk, blinded) == ristretto_scalarmult(sk, blinded)

oprf_finalize(data_name, x, q) ==
    SHA512(data_name \o "-FINALIZE" \o x \o ToString(q))

evaluate_oprf_ristretto255_components(sk, x, data_name) ==
    LET p == ristretto_hash_to_group(data_name, x)
        q == ristretto_scalarmult(sk, p)
    IN  [prf |-> oprf_finalize(data_name, x, q), q |-> q]

hkdf_sha512(ikm, info) == "K[" \o ikm \o "/" \o info \o "]"

sodium_xchacha20poly1305_encrypt(key, nonce, plaintext, aad) ==
    "E[" \o key \o "," \o nonce \o "," \o aad \o "," \o plaintext \o "]"

AuthFailure == "AuthFailure"

\* variant: the associated data is not authenticated
sodium_xchacha20poly1305_decrypt_no_aad(key, nonce, ct, aad) ==
    LET fits(m) == \E a \in IOCS \cup {"c"} :
                       ct = sodium_xchacha20poly1305_encrypt(key, nonce, m, a)
    IN  IF \E m \in METAS \cup {""} : fits(m)
        THEN CHOOSE m \in METAS \cup {""} : fits(m)
        ELSE AuthFailure

sodium_xchacha20poly1305_decrypt(key, nonce, ct, aad) ==
    IF \E m \in METAS \cup {""} :
           ct = sodium_xchacha20poly1305_encrypt(key, nonce, m, aad)
    THEN CHOOSE m \in METAS \cup {""} :
           ct = sodium_xchacha20poly1305_encrypt(key, nonce, m, aad)
    ELSE AuthFailure

\* nonce: the fresh 24 random bytes drawn for this call
evaluate_and_encrypt_metadata(sk, ioc, data_name, metadata, nonce) ==
    LET c   == evaluate_oprf_ristretto255_components(sk, ioc, data_name)
        key == hkdf_sha512(c.prf \o ToString(c.q), "meta|" \o data_name)
        n   == "n" \o ToString(nonce)
    IN  [prf |-> c.prf, nonce |-> n,
         ct |-> sodium_xchacha20poly1305_encrypt(key, n, metadata, ioc)]

\* variant: the key is derived from the PRF alone
decrypt_metadata_from_prf_only(data_name, ioc, prf, q, nonce, ct) ==
    LET key == hkdf_sha512(prf, "meta|" \o data_name)
    IN  sodium_xchacha20poly1305_decrypt(key, nonce, ct, ioc)

decrypt_metadata_from_prf_and_q(data_name, ioc, prf, q, nonce, ct) ==
    LET key == hkdf_sha512(prf \o ToString(q), "meta|" \o data_name)
    IN  sodium_xchacha20poly1305_decrypt(key, nonce, ct, ioc)

(***************************************************************************)
(* server/data_sync.py                                                     *)
(***************************************************************************)
\* A source line is given by its fields around the first comma, stripped:
\* << >> blank, <<t>> no comma, <<ioc, metadata>> otherwise.
SrcLines == {<<"junk">>, <<"a", "m1">>, <<"a", "m2">>, <<"b", "m1">>}

Sources == SeqsUpTo(SrcLines, MaxSrc)

\* the sources without malformed lines and with one metadata value
PlainSources == SeqsUpTo({<<"a", "m1">>, <<"b", "m1">>}, MaxSrc)

iter_iocs_from_file(src) ==
    SelectSeq(src, LAMBDA l : Len(l) >= 2 /\ l[1] # "")

current_iocs_of(src) ==
    LET recs == iter_iocs_from_file(src)
    IN  [i \in 1..Len(recs) |-> recs[i][1]]

current_meta_of(src) ==
    LET recs == iter_iocs_from_file(src)
        iocs == current_iocs_of(src)
    IN  [x \in Range(iocs) |-> recs[LastPos(iocs, x)][2]]

\* rows of index.csv that the loader keeps
IndexRows(index) ==
    SelectSeq(index, LAMBDA r : Len(r) >= 2 /\ r[1] # "")

existing_order_of(index) ==
    LET rows == IndexRows(index)
    IN  [i \in 1..Len(rows) |-> rows[i][1]]

existing_map_of(index) ==
    LET rows  == IndexRows(index)
        order == existing_order_of(index)
    IN  [x \in Range(order) |->
            LET r == rows[LastPos(order, x)]
            IN  [oprf  |-> r[2],
                 nonce |-> IF Len(r) > 2 THEN r[3] ELSE None,
                 ct    |-> IF Len(r) > 3 THEN r[4] ELSE None]]

Truthy(v) == v # None /\ v # ""

enc_meta_of(entry) ==
    IF Truthy(entry.nonce) /\ Truthy(entry.ct)
    THEN entry.nonce \o ":" \o entry.ct
    ELSE None

\* variant: the hash is taken from the first line of the log
prev_hash_of_first(logExists, log) ==
    LET lines == SelectSeq(log, LAMBDA l : Len(l) > 0)
    IN  IF ~logExists \/ Len(lines) = 0 THEN ZeroHash
        ELSE LET first    == lines[1]
                 last_hex == IF Len(first) >= 2 THEN first[Len(first)] ELSE ""
             IN  IF IsDigestHex(last_hex) THEN FromHex(last_hex) ELSE ZeroHash

\* the last non-empty line's final token, decoded; the zero seed otherwise
prev_hash_of(logExists, log) ==
    LET lines == SelectSeq(log, LAMBDA l : Len(l) > 0)
    IN  IF ~logExists \/ Len(lines) = 0 THEN ZeroHash
        ELSE LET last     == lines[Len(lines)]
                 last_hex == IF Len(last) >= 2 THEN last[Len(last)] ELSE ""
             IN  IF IsDigestHex(last_hex) THEN FromHex(last_hex) ELSE ZeroHash

\* variant: every line is hashed from the 64 zero bytes
ChainEvents_from_zero(prev_hash, events) ==
    LET evs == SelectSeq(events, LAMBDA e : e[1] \in {"ADDED", "REMOVED"})
    IN  [i \in 1..Len(evs) |->
            LET e         == evs[i]
                hex_part  == IF Truthy(e[2]) THEN e[2] ELSE "-"
                meta_part == IF Truthy(e[3]) THEN e[3] ELSE "-"
            IN  <<e[1], hex_part, meta_part,
                  Hex(SHA512(ZeroHash \o "|" \o e[1] \o "|" \o hex_part
                             \o "|" \o meta_part))>>]

RECURSIVE ChainEvents(_, _)
ChainEvents(prev_hash, events) ==
    IF events = << >> THEN << >>
    ELSE LET e         == Head(events)
             hex_part  == IF Truthy(e[2]) THEN e[2] ELSE "-"
             meta_part == IF Truthy(e[3]) THEN e[3] ELSE "-"
             new_hash  == SHA512(prev_hash \o "|" \o e[1] \o "|" \o hex_part
                                 \o "|" \o meta_part)
         IN  IF e[1] \notin {"ADDED", "REMOVED"}
             THEN ChainEvents(prev_hash, Tail(events))
             ELSE <<  <<e[1], hex_part, meta_part, Hex(new_hash)>>  >>
                  \o ChainEvents(new_hash, Tail(events))

\* variant: the log is opened for writing instead of appending
append_change_events_overwrite(logExists, log, events) ==
    ChainEvents(prev_hash_of(logExists, log), events)

append_change_events(logExists, log, events) ==
    (IF logExists THEN log ELSE << >>)
        \o ChainEvents(prev_hash_of(logExists, log), events)

\* append to acc the elements of s not yet in it, in order
RECURSIVE AppendNew(_, _)
AppendNew(acc, s) ==
    IF s = << >> THEN acc
    ELSE IF Head(s) \in Range(acc) THEN AppendNew(acc, Tail(s))
    ELSE AppendNew(Append(acc, Head(s)), Tail(s))

index_row(ioc, entry) ==
    IF entry.nonce = None \/ entry.ct = None
    THEN <<ioc, entry.oprf>>
    ELSE <<ioc, entry.oprf, entry.nonce, entry.ct>>

\* variant: every IOC of the source is added, whatever the index holds
to_add_all(index, src) == current_iocs_of(src)

\* the IOCs of the source that the index does not hold, in source order
to_add_of(index, src) ==
    SelectSeq(current_iocs_of(src),
              LAMBDA x : x \notin DOMAIN existing_map_of(index))

to_upgrade_of(index, src) ==
    SelectSeq(current_iocs_of(src),
              LAMBDA x : /\ x \in DOMAIN existing_map_of(index)
                         /\ \/ existing_map_of(index)[x].nonce = None
                            \/ existing_map_of(index)[x].ct = None)

to_remove_of(index, src) ==
    SelectSeq(existing_order_of(index),
              LAMBDA x : x \notin Range(current_iocs_of(src)))

\* the index entry of a record evaluated under sk: hex of the PRF, of the
\* nonce and of the ciphertext
evaluated_entry(sk, ioc, data_name, metadata, nonce) ==
    LET r == evaluate_and_encrypt_metadata(sk, ioc, data_name, metadata, nonce)
    IN  [oprf |-> Hex(r.prf), nonce |-> Hex(r.nonce), ct |-> Hex(r.ct)]

\* sync_data past its precondition checks, up to its writes: the rows of
\* the new index and the events to append
sync_changes(sk, indexExists, index0, nonce0, src) ==
    LET index        == IF indexExists THEN index0 ELSE << >>
        current_iocs == current_iocs_of(src)
        current_meta == current_meta_of(src)
        existing_order == existing_order_of(index)
        existing_map == existing_map_of(index)
        to_remove    == to_remove_of(index, src)
        to_add       == to_add_of(index, src)
        to_upgrade   == to_upgrade_of(index, src)
        evals        == to_add \o to_upgrade
        computed(x)  == evaluated_entry(sk, x, DataName, current_meta[x],
                                        nonce0 + LastPos(evals, x))
        prev_map     == [x \in DOMAIN existing_map \cup Range(evals) |->
                            IF x \in Range(evals) THEN computed(x)
                            ELSE existing_map[x]]
        kept         == DOMAIN prev_map \ Range(to_remove)
        new_order    == AppendNew(
                            SelectSeq(existing_order, LAMBDA x : x \in kept),
                            current_iocs)
        added        == [i \in 1..Len(to_add) |->
                            <<"ADDED", prev_map[to_add[i]].oprf,
                              enc_meta_of(prev_map[to_add[i]])>>]
        removed      == [i \in 1..Len(to_remove) |->
                            <<"REMOVED", prev_map[to_remove[i]].oprf,
                              enc_meta_of(prev_map[to_remove[i]])>>]
    IN  [index  |-> [i \in 1..Len(new_order) |->
                         index_row(new_order[i], prev_map[new_order[i]])],
         events |-> added \o removed,
         used   |-> Len(evals)]

\* sync_data past its precondition checks: the new index and change log
sync_data(sk, indexExists, index0, logExists, log, nonce0, src) ==
    LET c == CHOOSE v \in {sync_changes(sk, indexExists, index0, nonce0, src)} :
                 TRUE
    IN  [index |-> c.index,
         log   |-> append_change_events(logExists, log, c.events),
         used  |-> c.used]

\* variant: one entry per distinct IOC of the source
rekey_data_dedup(sk, log0, nonce0, src) ==
    LET current_iocs == AppendNew(<< >>, current_iocs_of(src))
        current_meta == current_meta_of(src)
        added_entries == [i \in 1..Len(current_iocs) |->
            LET x == current_iocs[i]
                r == evaluate_and_encrypt_metadata(
                         sk, x, DataName, current_meta[x], nonce0 + i)
            IN  <<x, Hex(r.prf), Hex(r.nonce), Hex(r.ct)>>]
        rekey_events == [i \in 1..Len(added_entries) |->
            <<"ADDED", added_entries[i][2],
              added_entries[i][3] \o ":" \o added_entries[i][4]>>]
    IN  [index |-> added_entries,
         log   |-> append_change_events(TRUE, << >>, rekey_events),
         used  |-> Len(current_iocs)]

\* variant: the events are appended to the old change log
rekey_data_keeplog(sk, log0, nonce0, src) ==
    LET current_iocs == current_iocs_of(src)
        current_meta == current_meta_of(src)
        added_entries == [i \in 1..Len(current_iocs) |->
            LET x == current_iocs[i]
                r == evaluate_and_encrypt_metadata(
                         sk, x, DataName, current_meta[x], nonce0 + i)
            IN  <<x, Hex(r.prf), Hex(r.nonce), Hex(r.ct)>>]
        rekey_events == [i \in 1..Len(added_entries) |->
            <<"ADDED", added_entries[i][2],
              added_entries[i][3] \o ":" \o added_entries[i][4]>>]
    IN  [index |-> added_entries,
         log   |-> append_change_events(TRUE, log0, rekey_events),
         used  |-> Len(current_iocs)]

\* rekey_data past its precondition checks, under the new key sk; the old
\* change log is truncated before the events are appended
rekey_data(sk, log0, nonce0, src) ==
    LET current_iocs == current_iocs_of(src)
        current_meta == current_meta_of(src)
        added_entries == [i \in 1..Len(current_iocs) |->
            LET x == current_iocs[i]
                r == evaluate_and_encrypt_metadata(
                         sk, x, DataName, current_meta[x], nonce0 + i)
            IN  <<x, Hex(r.prf), Hex(r.nonce), Hex(r.ct)>>]
        rekey_events == [i \in 1..Len(added_entries) |->
            LET e == added_entries[i]
            IN  <<"ADDED", e[2],
                  IF Truthy(e[3]) /\ Truthy(e[4]) THEN e[3] \o ":" \o e[4]
                  ELSE None>>]
    IN  [index |-> added_entries,
         log   |-> LET truncated == SubSeq(log0, 1, 0)
                   IN  append_change_events(TRUE, truncated, rekey_events),
         used  |-> Len(current_iocs)]

(***************************************************************************)
(* server/api_server.py                                                    *)
(***************************************************************************)
\* index of the first line whose last token equals last_hash (0 when none)
RECURSIVE FirstMatch(_, _, _)
FirstMatch(lines, last_hash, i) ==
    IF i > Len(lines) THEN 0
    ELSE IF Len(lines[i]) > 0 /\ lines[i][Len(lines[i])] = last_hash THEN i
    ELSE FirstMatch(lines, last_hash, i + 1)

\* variant: the body starts at the matching line
do_GET_inclusive(logExists, lines, last_hash) ==
    IF ~logExists
    THEN [status |-> 404, label |-> "", body |-> << >>]
    ELSE LET m == IF last_hash # "" THEN FirstMatch(lines, last_hash, 1) ELSE 0
         IN  [status |-> 200,
              label  |-> IF m > 0 THEN "delta" ELSE "full",
              body   |-> SubSeq(lines, IF m > 0 THEN m ELSE 1, Len(lines))]

\* variant: a request that carries a hash is labeled delta
do_GET_hash_is_delta(logExists, lines, last_hash) ==
    IF ~logExists
    THEN [status |-> 404, label |-> "", body |-> << >>]
    ELSE LET m == IF last_hash # "" THEN FirstMatch(lines, last_hash, 1) ELSE 0
         IN  [status |-> 200,
              label  |-> IF last_hash # "" THEN "delta" ELSE "full",
              body   |-> SubSeq(lines, m + 1, Len(lines))]

\* GET /sync_data; last_hash = "" stands for a request without hash
do_GET(logExists, lines, last_hash) ==
    IF ~logExists
    THEN [status |-> 404, label |-> "", body |-> << >>]
    ELSE LET m         == IF last_hash # "" THEN FirstMatch(lines, last_hash, 1)
                          ELSE 0
             matched   == m > 0
             start_idx == IF matched THEN m ELSE 0
         IN  [status |-> 200,
              label  |-> IF matched THEN "delta" ELSE "full",
              body   |-> SubSeq(lines, start_idx + 1, Len(lines))]

\* the payload of GET /encryption_type
ExpectedInfo == [encryption |-> "xchacha20poly1305-ietf",
                 suite |-> "oprf-ristretto255-sha512"]

\* GET /encryption_type for a valid data_type
do_GET_encryption_type(schema) ==
    IF schema = None THEN [status |-> 404, info |-> [encryption |-> "", suite |-> ""]]
    ELSE [status |-> 200, info |-> ExpectedInfo]

\* the placeholder written as the key of an "ot" dataset (not 32 bytes)
OtKey == 0 - 1

\* variant: the key is loaded before the schema is looked for
do_POST_key_first(schema, sk, blinded) ==
    IF sk = 0
    THEN [status |-> 404, evaluated |-> 0, steps |-> << >>]
    ELSE IF schema = None
    THEN [status |-> 404, evaluated |-> 0, steps |-> <<"read_key">>]
    ELSE IF sk = OtKey
    THEN [status |-> 500, evaluated |-> 0, steps |-> <<"read_key">>]
    ELSE IF scalarmult_rejects(sk, blinded)
    THEN [status |-> 500, evaluated |-> 0, steps |-> <<"read_key">>]
    ELSE [status |-> 200, evaluated |-> evaluate_blinded_point(sk, blinded),
          steps |-> <<"read_key">>]

\* POST /oprf_evaluate with a valid data_type and a 32-byte blinded point;
\* steps records the reads of private.key
do_POST(schema, sk, blinded) ==
    IF schema = None
    THEN [status |-> 404, evaluated |-> 0, steps |-> << >>]
    ELSE IF sk = 0
    THEN [status |-> 404, evaluated |-> 0, steps |-> << >>]
    ELSE IF sk = OtKey
    THEN [status |-> 500, evaluated |-> 0, steps |-> <<"read_key">>]
    ELSE IF scalarmult_rejects(sk, blinded)
    THEN [status |-> 500, evaluated |-> 0, steps |-> <<"read_key">>]
    ELSE [status |-> 200, evaluated |-> evaluate_blinded_point(sk, blinded),
          steps |-> <<"read_key">>]

(***************************************************************************)
(* Dataset names                                                           *)
(***************************************************************************)
AlnumChars == "ABCDEFGHIJKLMNOPQRSTUVWXYZabcdefghijklmnopqrstuvwxyz0123456789"

\* ALNUM_RE.fullmatch(value), the pattern [A-Za-z0-9]+
ALNUM_RE(value) ==
    /\ Len(value) >= 1
    /\ \A i \in 1..Len(value) :
          \E j \in 1..Len(AlnumChars) :
              SubSeq(value, i, i) = SubSeq(AlnumChars, j, j)

\* names that do not match the pattern
BadNames == {"", "../x", "a.b"}

Names == {DataName} \cup BadNames

\* server-cli <command> <name> ...: the exit code of argparse when the type
\* data_name_type rejects the name (0: the command runs)
data_name_type(value) == IF ALNUM_RE(value) THEN 0 ELSE 2

\* the three handlers of the API: the status sent for the data_type before
\* any file is looked for (0: the handler goes on)
api_data_type(data_type) ==
    IF data_type = "" \/ ~ALNUM_RE(data_type) THEN 400 ELSE 0

\* client-cli sync_data and query: the exit code of the name check
client_data_name(data_name) == IF ALNUM_RE(data_name) THEN 0 ELSE 2

\* os.path.isdir(data/<label>/<name>) for the names that stay inside
\* data/<label>: the empty name joins to data/<label>/ itself
out_dir_isdir(name, ld) ==
    IF name = "" THEN ld.exists
    ELSE IF name = DataName THEN ld.replica
    ELSE name \in ld.others

\* os.makedirs(data/<label>/<name>, exist_ok=True)
makedirs(name, ld) ==
    IF name = DataName THEN [ld EXCEPT !.exists = TRUE, !.replica = TRUE]
    ELSE [ld EXCEPT !.exists = TRUE, !.others = @ \cup {name}]

\* client-cli purge_data <server> <name>: the directory data/<label>/<name>
\* is removed when it exists, then data/<label> when it is empty; the name
\* is not looked at.  exists: whether data/<label>/<name> is a directory
purge_entry(name, exists, ld) ==
    LET after == IF ~exists \/ name \notin {"", DataName} \cup ld.others
                 THEN ld
                 ELSE IF name = ""
                 THEN [exists |-> FALSE, replica |-> FALSE, others |-> {}]
                 ELSE IF name = DataName THEN [ld EXCEPT !.replica = FALSE]
                 ELSE [ld EXCEPT !.others = @ \ {name}]
    IN  [rc |-> 0, steps |-> IF exists THEN <<"rmtree">> ELSE << >>,
         labelDir |-> IF after.exists /\ ~after.replica /\ after.others = {}
                      THEN [after EXCEPT !.exists = FALSE]
                      ELSE after]

\* client-cli reset_data <server> <name>: purge, then a full sync, whose
\* exit code and steps are sync
reset_entry(name, exists, ld, sync) ==
    LET p == purge_entry(name, exists, ld)
    IN  IF p.rc # 0 THEN p
        ELSE [rc |-> sync.rc, steps |-> p.steps \o sync.steps,
              labelDir |-> IF client_data_name(name) = 0
                           THEN makedirs(name, p.labelDir)
                           ELSE p.labelDir]

(***************************************************************************)
(* client/cli.py                                                           *)
(***************************************************************************)
\* variant: the hash of the first line
latest_hash_from_file_first(logExists, log) ==
    LET lines == SelectSeq(log, LAMBDA l : Len(l) > 0)
    IN  IF ~logExists \/ Len(lines) = 0 THEN ""
        ELSE IF Len(lines[1]) >= 3 THEN lines[1][Len(lines[1])] ELSE ""

\* the final token of the last non-empty line; "" stands for None
latest_hash_from_file(logExists, log) ==
    LET lines == SelectSeq(log, LAMBDA l : Len(l) > 0)
    IN  IF ~logExists \/ Len(lines) = 0 THEN ""
        ELSE LET last == lines[Len(lines)]
             IN  IF Len(last) >= 3 THEN last[Len(last)] ELSE ""

\* a dict is the sequence of its <<key, value>> items in insertion order
DictKeys(d) == {d[i][1] : i \in 1..Len(d)}

DictGet(d, k) ==
    IF k \in DictKeys(d) THEN (CHOOSE i \in 1..Len(d) : d[i][1] = k)
    ELSE 0

DictSet(d, k, v) ==
    IF k \in DictKeys(d)
    THEN [i \in 1..Len(d) |-> IF d[i][1] = k THEN <<k, v>> ELSE d[i]]
    ELSE Append(d, <<k, v>>)

DictPop(d, k) == SelectSeq(d, LAMBDA it : it[1] # k)

\* apply the events of the lines to the active mapping
RECURSIVE ApplyEvents(_, _)
ApplyEvents(active, lines) ==
    IF lines = << >> THEN active
    ELSE LET parts == Head(lines)
         IN  IF Len(parts) < 4 THEN ApplyEvents(active, Tail(lines))
             ELSE IF parts[1] = "ADDED"
                  THEN ApplyEvents(DictSet(active, parts[2], parts[3]), Tail(lines))
             ELSE IF parts[1] = "REMOVED"
                  THEN ApplyEvents(DictPop(active, parts[2]), Tail(lines))
             ELSE ApplyEvents(active, Tail(lines))

\* rows of active_index.csv kept by the loader ({} when the file is missing)
load_active_index(activeExists, file) ==
    IF ~activeExists THEN << >>
    ELSE ApplyEvents(<< >>,
             [i \in 1..Len(file) |-> <<"ADDED", file[i][1], file[i][2], "">>])

Faults == {"none", "net", "raw", "log", "active"}

\* variant: the status of the answer is not looked at
cmd_sync_data_any_status(c, srvLogExists, srvLines, hash, skip_local_hash, fault) ==
    LET last_hash == IF skip_local_hash THEN hash
                     ELSE IF hash # "" THEN hash
                     ELSE latest_hash_from_file(c.logExists, c.log)
        r          == do_GET(srvLogExists, srvLines, last_hash)
        delta_mode == r.label = "delta"
        sent       == [status |-> r.status, label |-> r.label, body |-> r.body,
                       anchor |-> last_hash]
        \* local state removed before a full replay is written
        log1       == IF delta_mode THEN c.log ELSE << >>
        logEx1     == IF delta_mode THEN c.logExists ELSE FALSE
        act1       == IF delta_mode THEN c.active ELSE << >>
        actEx1     == IF delta_mode THEN c.activeExists ELSE FALSE
        log2       == (IF delta_mode /\ c.logExists THEN c.log ELSE << >>) \o r.body
        start      == IF delta_mode /\ actEx1
                      THEN load_active_index(actEx1, act1) ELSE << >>
        active     == ApplyEvents(start, r.body)
    IN  IF fault = "net"
        THEN [rc |-> 1, c |-> c,
              resp |-> [status |-> 0, label |-> "", body |-> << >>,
                        anchor |-> last_hash]]
        ELSE IF r.body = << >>
        THEN [rc |-> 0, c |-> c, resp |-> sent]
        ELSE IF fault = "raw"
        THEN [rc |-> 1, c |-> c, resp |-> sent]
        ELSE IF fault = "log"
        THEN [rc |-> 1, resp |-> sent,
              c |-> [log |-> log1, logExists |-> logEx1, active |-> act1,
                     activeExists |-> actEx1]]
        ELSE IF fault = "active"
        THEN [rc |-> 1, resp |-> sent,
              c |-> [log |-> log2, logExists |-> TRUE, active |-> act1,
                     activeExists |-> actEx1]]
        ELSE [rc |-> 0, resp |-> sent,
              c |-> [log |-> log2, logExists |-> TRUE, active |-> active,
                     activeExists |-> TRUE]]

\* cmd_sync_data on the replica c against the server's log; hash = "" when
\* --hash is not given; fault names the step whose I/O fails, if any.  The
\* audit files (delta-*.log, full-*.log) are written and never read: they
\* are not part of the state, only the failure of their write is.
cmd_sync_data(c, srvLogExists, srvLines, hash, skip_local_hash, fault) ==
    LET last_hash == IF skip_local_hash THEN hash
                     ELSE IF hash # "" THEN hash
                     ELSE latest_hash_from_file(c.logExists, c.log)
        r          == do_GET(srvLogExists, srvLines, last_hash)
        delta_mode == r.label = "delta"
        sent       == [status |-> r.status, label |-> r.label, body |-> r.body,
                       anchor |-> last_hash]
        \* local state removed before a full replay is written
        log1       == IF delta_mode THEN c.log ELSE << >>
        logEx1     == IF delta_mode THEN c.logExists ELSE FALSE
        act1       == IF delta_mode THEN c.active ELSE << >>
        actEx1     == IF delta_mode THEN c.activeExists ELSE FALSE
        log2       == (IF delta_mode /\ c.logExists THEN c.log ELSE << >>) \o r.body
        start      == IF delta_mode /\ actEx1
                      THEN load_active_index(actEx1, act1) ELSE << >>
        active     == ApplyEvents(start, r.body)
    IN  IF fault = "net"
        THEN [rc |-> 1, c |-> c,
              resp |-> [status |-> 0, label |-> "", body |-> << >>,
                        anchor |-> last_hash]]
        ELSE IF r.status # 200
        THEN [rc |-> 1, c |-> c, resp |-> sent]
        ELSE IF r.body = << >>
        THEN [rc |-> 0, c |-> c, resp |-> sent]
        ELSE IF fault = "raw"
        THEN [rc |-> 1, c |-> c, resp |-> sent]
        ELSE IF fault = "log"
        THEN [rc |-> 1, resp |-> sent,
              c |-> [log |-> log1, logExists |-> logEx1, active |-> act1,
                     activeExists |-> actEx1]]
        ELSE IF fault = "active"
        THEN [rc |-> 1, resp |-> sent,
              c |-> [log |-> log2, logExists |-> TRUE, active |-> act1,
                     activeExists |-> actEx1]]
        ELSE [rc |-> 0, resp |-> sent,
              c |-> [log |-> log2, logExists |-> TRUE, active |-> active,
                     activeExists |-> TRUE]]

\* the active set a query looks its PRF up in: active_index.csv, or the
\* replay of the local log when the loader returns nothing
match_active(c) ==
    LET loaded == load_active_index(c.activeExists, c.active)
    IN  IF loaded # << >> THEN loaded ELSE ApplyEvents(<< >>, c.log)

\* step 8 of cmd_query: split enc_meta at its colon, decode both parts and
\* decrypt with the IOC as associated data
query_decrypt(data_name, x, PRF, Q, enc) ==
    LET colon     == FindChar(enc, ":", 1)
        nonce_hex == SubSeq(enc, 1, colon - 1)
        ct_hex    == SubSeq(enc, colon + 1, Len(enc))
        meta      == decrypt_metadata_from_prf_and_q(
                         data_name, x, PRF, Q, FromHex(nonce_hex),
                         FromHex(ct_hex))
    IN  IF colon = 0 \/ ~IsHex(nonce_hex) \/ ~IsHex(ct_hex)
           \/ meta = AuthFailure
        THEN [rc |-> 1, out |-> "decfail", meta |-> ""]
        ELSE [rc |-> 0, out |-> "match", meta |-> meta]

\* cmd_query for IOC x with blinding scalar r, after its sync left replica c,
\* against a server with the given schema and key sk
query_match(c, schema, sk, x, r) ==
    LET P       == ristretto_hash_to_group(DataName, x)
        B       == ristretto_scalarmult(r, P)
        E       == evaluate_blinded_point(sk, B)
        r_inv   == ristretto_scalar_invert(r)
        Q       == ristretto_scalarmult(r_inv, E)
        PRF     == oprf_finalize(DataName, x, Q)
        prf_hex == Hex(PRF)
        loaded  == load_active_index(c.activeExists, c.active)
        active  == match_active(c)
        pos     == DictGet(active, prf_hex)
        enc     == IF pos = 0 THEN "" ELSE active[pos][2]
    IN  IF schema = None \/ sk = 0
        THEN [rc |-> 1, out |-> "error", meta |-> ""]
        ELSE IF loaded = << >> /\ ~c.logExists
        THEN [rc |-> 1, out |-> "error", meta |-> ""]
        ELSE IF enc = ""
        THEN [rc |-> 0, out |-> "nomatch", meta |-> ""]
        ELSE query_decrypt(DataName, x, PRF, Q, enc)

\* answers a server of another version may give to /encryption_type
Infos == {ExpectedInfo,
          [encryption |-> "aes256gcm", suite |-> "oprf-ristretto255-sha512"],
          [encryption |-> "xchacha20poly1305-ietf", suite |-> "oprf-p256-sha256"]}

\* variant: the exit code of the sync is not looked at
cmd_query_ignore_rc(c, schema, sk, srvLogExists, srvLines, x, r, fault, info) ==
    LET s  == cmd_sync_data(c, srvLogExists, srvLines, "", FALSE, fault)
        B  == ristretto_scalarmult(r, ristretto_hash_to_group(DataName, x))
        ev == do_POST(schema, sk, B)
        m  == query_match(s.c, schema, sk, x, r)
    IN  [rc |-> m.rc, c |-> s.c, resp |-> s.resp, out |-> m.out,
         meta |-> m.meta,
         steps |-> <<"sync_data", "encryption_type", "scalar_random",
                     "oprf_evaluate">> \o ev.steps]

\* variant: the answer is refused only when both of its values differ
cmd_query_both_differ(c, schema, sk, srvLogExists, srvLines, x, r, fault, info) ==
    LET s  == cmd_sync_data(c, srvLogExists, srvLines, "", FALSE, fault)
        d  == do_GET_encryption_type(schema)
        B  == ristretto_scalarmult(r, ristretto_hash_to_group(DataName, x))
        ev == do_POST(schema, sk, B)
        m  == query_match(s.c, schema, sk, x, r)
        st2 == <<"sync_data", "encryption_type">>
        st3 == st2 \o <<"scalar_random", "oprf_evaluate">> \o ev.steps
        err(rc, steps) == [rc |-> rc, c |-> s.c, resp |-> s.resp,
                           out |-> "error", meta |-> "", steps |-> steps]
    IN  IF s.rc # 0 THEN err(s.rc, <<"sync_data">>)
        ELSE IF d.status # 200 THEN err(1, st2)
        ELSE IF info.encryption # ExpectedInfo.encryption
                /\ info.suite # ExpectedInfo.suite
        THEN err(1, st2)
        ELSE IF ev.status # 200 THEN err(1, st3)
        ELSE [rc |-> m.rc, c |-> s.c, resp |-> s.resp, out |-> m.out,
              meta |-> m.meta, steps |-> st3]

\* cmd_query for IOC x on the replica c: r is the blinding scalar drawn if
\* the query gets that far, fault the I/O failure of its sync (if any), info
\* the payload of a 200 answer to /encryption_type.  steps lists, in order,
\* the requests sent, the drawing of the scalar and the server's key reads.
cmd_query(c, schema, sk, srvLogExists, srvLines, x, r, fault, info) ==
    LET s  == cmd_sync_data(c, srvLogExists, srvLines, "", FALSE, fault)
        d  == do_GET_encryption_type(schema)
        P  == ristretto_hash_to_group(DataName, x)
        B  == ristretto_scalarmult(r, P)
        ev == do_POST(schema, sk, B)
        m  == query_match(s.c, schema, sk, x, r)
        st1 == <<"sync_data">>
        st2 == st1 \o <<"encryption_type">>
        st3 == st2 \o <<"scalar_random", "oprf_evaluate">> \o ev.steps
        err(rc, steps) == [rc |-> rc, c |-> s.c, resp |-> s.resp,
                           out |-> "error", meta |-> "", steps |-> steps]
    IN  IF s.rc # 0 THEN err(s.rc, st1)
        ELSE IF d.status # 200 THEN err(1, st2)
        ELSE IF info.encryption # ExpectedInfo.encryption
                \/ info.suite # ExpectedInfo.suite
        THEN err(1, st2)
        ELSE IF ev.status # 200 THEN err(1, st3)
        ELSE [rc |-> m.rc, c |-> s.c, resp |-> s.resp, out |-> m.out,
              meta |-> m.meta, steps |-> st3]

(***************************************************************************)
(* State                                                                   *)
(***************************************************************************)
VARIABLES
    srvSchema,      \* supported_algorithm of schemas/D/schema.json, or None
    srvKey,         \* secrets/D/private.key (a scalar; 0 when missing)
    srvDirs,        \* whether the directories schemas/D and secrets/D exist
    keyCtr,         \* number of random keys drawn so far
    srvIndexExists, \* data/D/index.csv exists
    srvIndex,       \* its rows
    srvLogExists,   \* data/D/changes.log exists
    srvLog,         \* its lines
    nonceCtr,       \* number of random nonces drawn so far
    run,            \* the sync_data runs in flight, step by step
    cli,            \* the client replica data/<label>/D
    resp,           \* the answer to the sync request of the last command
    qres,           \* the outcome printed by the last command, if a query
    last,           \* the last command run and its exit code
    cx,             \* one OPRF and encryption exchange, step by step
    labelDir        \* the client's directory data/<label> of the server

vars == <<srvSchema, srvKey, srvDirs, keyCtr, srvIndexExists, srvIndex, srvLogExists,
          srvLog, nonceCtr, run, cli, resp, qres, last, cx, labelDir>>

srvVars == <<srvSchema, srvKey, srvDirs, keyCtr, srvIndexExists, srvIndex, srvLogExists,
             srvLog, nonceCtr>>

dataVars == <<srvIndexExists, srvIndex, srvLogExists, srvLog, nonceCtr>>

NoResp == [status |-> 0, label |-> "", body |-> << >>, anchor |-> ""]

NoQuery == [out |-> "none", meta |-> "", steps |-> << >>]

NoExchange == [stage |-> "none"]

\* a command on the dataset DataName: its exit code or HTTP status, its
\* source file, and in ioc the IOC queried, the blinded point sent or the
\* failure met
Cmd(op, rc, src, ioc) ==
    [op |-> op, rc |-> rc, src |-> src, ioc |-> ioc, name |-> DataName]

\* a command given another dataset name
CmdNamed(op, rc, name) == [Cmd(op, rc, << >>, "") EXCEPT !.name = name]

BothDirs == [schemas |-> TRUE, secrets |-> TRUE]

\* the processes that may run sync_data on the dataset at the same time
Pids == {1, 2}

\* a process that runs no sync_data; of a run: src its source, index and
\* events what it computed, prev the hash it chains from, k the lines it
\* appended; redo: it repeats the run that was interrupted, which was to
\* leave the index rows want
Idle == [pc |-> "idle", src |-> << >>, index |-> << >>, events |-> << >>,
         prev |-> ZeroHash, k |-> 0, redo |-> FALSE, want |-> {}]

\* overlapped: two runs were in flight at the same time
NoRuns == [proc |-> [p \in Pids |-> Idle], overlapped |-> FALSE]

\* the other datasets the client may hold replicas of, from the same server
OtherNames == {"E"}

\* data/<label>: whether it exists, whether data/<label>/D does, and the
\* other dataset directories it holds
NoLabelDir == [exists |-> FALSE, replica |-> FALSE, others |-> {}]

EmptyReplica == [log |-> << >>, logExists |-> FALSE, active |-> << >>,
                 activeExists |-> FALSE]

\* a freshly created dataset and a client that never synced
Init ==
    /\ srvSchema = "classic"
    /\ srvKey = 1
    /\ srvDirs = BothDirs
    /\ keyCtr = 1
    /\ srvIndexExists = FALSE
    /\ srvIndex = << >>
    /\ srvLogExists = FALSE
    /\ srvLog = << >>
    /\ nonceCtr = 0
    /\ run = NoRuns
    /\ labelDir = NoLabelDir
    /\ cli = EmptyReplica
    /\ resp = NoResp
    /\ qres = NoQuery
    /\ last = Cmd("create", 0, << >>, "")
    /\ cx = NoExchange

(***************************************************************************)
(* Server commands (server/cli.py)                                         *)
(***************************************************************************)
\* exit code of the precondition checks shared by sync_data and rekey_data
\* (0 when they pass); rekey_data does not look for the key
\* variant: the key file is not looked for
precheck_key_unchecked(schema, sk, needs_key) ==
    IF schema = None THEN 1
    ELSE IF schema = "ot" THEN 2
    ELSE IF schema # "classic" THEN 2
    ELSE 0

\* variant: the algorithm of the schema is not looked at
precheck_any_algorithm(schema, sk, needs_key) ==
    IF schema = None THEN 1
    ELSE IF needs_key /\ sk = 0 THEN 1
    ELSE 0

precheck(schema, sk, needs_key) ==
    IF schema = None THEN 1
    ELSE IF schema = "ot" THEN 2
    ELSE IF schema # "classic" THEN 2
    ELSE IF needs_key /\ sk = 0 THEN 1
    ELSE 0

\* what can go wrong in a run past the schema and key checks: the source
\* path names no file, libsodium cannot be loaded, or a primitive (scalar
\* multiplication, AEAD encryption) returns non-zero
SyncFaults == {"nofile", "nolib", "reject"}

\* exit code of sync_data and rekey_data past their precondition checks;
\* evaluations: the number of calls of evaluate_and_encrypt_metadata
crypto_exit(fault, evaluations) ==
    IF fault = "nofile" THEN 1
    ELSE IF fault \in {"nolib", "reject"} /\ evaluations > 0 THEN 3
    ELSE 0

\* server-cli sync D <src>
Reconcile(src, fault) ==
    \E pre \in {precheck(srvSchema, srvKey, TRUE)} :
    \E r \in {sync_data(srvKey, srvIndexExists, srvIndex, srvLogExists,
                        srvLog, nonceCtr, src)} :
    \E rc \in {IF pre # 0 THEN pre ELSE crypto_exit(fault, r.used)} :
        /\ last' = Cmd("reconcile", rc, src, fault)
        /\ resp' = NoResp
        /\ qres' = NoQuery
        /\ UNCHANGED <<srvSchema, srvKey, srvDirs, keyCtr, cli, cx, run, labelDir>>
        /\ IF rc # 0 THEN UNCHANGED dataVars
           ELSE /\ nonceCtr + r.used <= MaxNonce
                /\ srvIndexExists' = TRUE
                /\ srvIndex' = r.index
                /\ srvLogExists' = TRUE
                /\ srvLog' = r.log
                /\ nonceCtr' = nonceCtr + r.used

\* server-cli rekey D <src>; the new key is one never used before and is
\* written before the source is read; index.csv is opened for writing
\* before the first evaluation
Rekey(src, fault) ==
    \E pre \in {precheck(srvSchema, srvKey, FALSE)} :
    \E sk \in {generate_ristretto255_private_key(keyCtr)} :
    \E r \in {rekey_data(sk, srvLog, nonceCtr, src)} :
    \E rc \in {IF pre # 0 THEN pre ELSE crypto_exit(fault, r.used)} :
        /\ last' = Cmd("rekey", rc, src, fault)
        /\ resp' = NoResp
        /\ qres' = NoQuery
        /\ UNCHANGED <<srvSchema, cli, cx, run, labelDir>>
        /\ IF pre # 0 THEN UNCHANGED <<srvKey, srvDirs, keyCtr, dataVars>>
           ELSE /\ keyCtr < MaxKey
                /\ srvKey' = sk
                /\ keyCtr' = keyCtr + 1
                /\ srvDirs' = [srvDirs EXCEPT !.secrets = TRUE]
                /\ IF rc = 1 THEN UNCHANGED dataVars
                   ELSE IF rc = 3
                   THEN /\ srvIndexExists' = TRUE
                        /\ srvIndex' = << >>
                        /\ UNCHANGED <<srvLogExists, srvLog, nonceCtr>>
                   ELSE /\ nonceCtr + r.used <= MaxNonce
                        /\ srvIndexExists' = TRUE
                        /\ srvIndex' = r.index
                        /\ srvLogExists' = TRUE
                        /\ srvLog' = r.log
                        /\ nonceCtr' = nonceCtr + r.used

\* the check of create_source that refuses to overwrite a source
\* variant: only the two files are looked for
source_exists_files_only(schema, sk, dirs) == schema # None \/ sk # 0

source_exists(schema, sk, dirs) ==
    schema # None \/ sk # 0 \/ dirs.schemas \/ dirs.secrets

\* server-cli create_source D <alg>; fault "schema": writing schema.json
\* fails; fault "key": writing private.key fails
Create(alg, fault) ==
    \E exists \in {source_exists(srvSchema, srvKey, srvDirs)} :
    \E rc \in {IF exists \/ fault # "none" THEN 1 ELSE 0} :
    \E sk \in {generate_ristretto255_private_key(keyCtr)} :
        /\ last' = Cmd("create", rc, << >>, "")
        /\ resp' = NoResp
        /\ qres' = NoQuery
        /\ UNCHANGED <<dataVars, cli, cx, run, labelDir>>
        /\ IF exists THEN UNCHANGED <<srvSchema, srvKey, srvDirs, keyCtr>>
           ELSE IF fault = "schema"
           THEN /\ srvDirs' = [srvDirs EXCEPT !.schemas = TRUE]
                /\ UNCHANGED <<srvSchema, srvKey, keyCtr>>
           ELSE IF fault = "key"
           THEN /\ srvSchema' = alg
                /\ srvDirs' = BothDirs
                /\ UNCHANGED <<srvKey, keyCtr>>
           ELSE IF alg = "classic"
           THEN /\ keyCtr < MaxKey
                /\ srvSchema' = alg
                /\ srvDirs' = BothDirs
                /\ srvKey' = sk
                /\ keyCtr' = keyCtr + 1
           ELSE /\ srvSchema' = alg
                /\ srvDirs' = BothDirs
                /\ srvKey' = OtKey
                /\ UNCHANGED keyCtr

CreateFaults == {"none", "schema", "key"}

ServerCreate == \E alg \in {"classic", "ot"} : \E fault \in CreateFaults :
                    Create(alg, fault)

\* server-cli create_source D --remove; fault "schema": removing schema.json
\* fails; fault "key": removing private.key fails
Delete(fault) ==
    \E rc \in {IF \/ fault = "schema" /\ srvSchema # None
                  \/ fault = "key" /\ srvKey # 0
               THEN 1 ELSE 0} :
        /\ last' = Cmd("delete", rc, << >>, "")
        /\ resp' = NoResp
        /\ qres' = NoQuery
        /\ UNCHANGED <<keyCtr, dataVars, cli, cx, run, labelDir>>
        /\ IF fault = "schema" /\ srvSchema # None
           THEN UNCHANGED <<srvSchema, srvKey, srvDirs>>
           ELSE /\ srvSchema' = None
                /\ srvKey' = IF rc = 1 THEN srvKey ELSE 0
                /\ srvDirs' = [schemas |-> FALSE,
                               secrets |-> IF rc = 1 THEN srvDirs.secrets
                                           ELSE FALSE]

ServerDelete == \E fault \in CreateFaults : Delete(fault)

ServerSync == \E src \in Sources : Reconcile(src, "")

ServerRekey == \E src \in Sources : Rekey(src, "")

ServerSyncPlain == \E src \in PlainSources : Reconcile(src, "")

ServerRekeyPlain == \E src \in PlainSources : Rekey(src, "")

\* the sources a failing run is given: none when the path names no file
FaultSources(fault) == IF fault = "nofile" THEN {<< >>} ELSE PlainSources

\* a sync that meets a missing source file or a failure of the crypto layer
ServerSyncFaulty ==
    \E fault \in SyncFaults : \E src \in FaultSources(fault) :
        Reconcile(src, fault)

\* a rekey that meets a missing source file or a failure of the crypto layer
ServerRekeyFaulty ==
    \E fault \in SyncFaults : \E src \in FaultSources(fault) :
        Rekey(src, fault)

\* variant: only index.csv is removed
ServerPurge_index_only ==
    /\ srvIndexExists' = FALSE
    /\ srvIndex' = << >>
    /\ last' = Cmd("purge", 0, << >>, "")
    /\ resp' = NoResp
    /\ qres' = NoQuery
    /\ UNCHANGED <<srvSchema, srvKey, srvDirs, keyCtr, srvLogExists, srvLog,
                   nonceCtr, cli, cx, run, labelDir>>

\* server-cli purge_data D
ServerPurge ==
    /\ srvIndexExists' = FALSE
    /\ srvIndex' = << >>
    /\ srvLogExists' = FALSE
    /\ srvLog' = << >>
    /\ last' = Cmd("purge", 0, << >>, "")
    /\ resp' = NoResp
    /\ qres' = NoQuery
    /\ UNCHANGED <<srvSchema, srvKey, srvDirs, keyCtr, nonceCtr, cli, cx, run, labelDir>>

(***************************************************************************)
(* sync_data step by step (server/data_sync.py): it reads the index and    *)
(* computes its changes, rewrites index.csv, reads the last hash of the    *)
(* change log, and appends its events one line after the other.            *)
(***************************************************************************)
\* the sources that name each IOC once
DistinctSources ==
    {src \in PlainSources :
        \A i, j \in 1..Len(src) : src[i][1] = src[j][1] => i = j}

InFlight(l) == l.pc \in {"planned", "indexed", "appending"}

\* the lines the runs in flight have yet to append
Pending == [p \in Pids |-> IF InFlight(run.proc[p])
                            THEN Len(run.proc[p].events) - run.proc[p].k
                            ELSE 0]

\* the (IOC, PRF) rows of an index
IndexKeys(index) == {<<r[1], r[2]>> : r \in Range(index)}

\* logf.write of one line
\* variant: the line is put before the lines of the file
append_line_front(log, line) == <<line>> \o log

append_line(log, line) == Append(log, line)

\* the checks pass, the index is read and the changes are computed
RunStart(p, src) ==
    /\ run.proc[p].pc \in {"idle", "crashed"}
    /\ precheck(srvSchema, srvKey, TRUE) = 0
    /\ \E c \in {sync_changes(srvKey, srvIndexExists, srvIndex, nonceCtr,
                               src)} :
       \E redo \in {run.proc[p].pc = "crashed" /\ run.proc[p].src = src} :
          /\ nonceCtr + c.used <= MaxNonce
          /\ Len(srvLog) + Pending[1] + Pending[2] + Len(c.events)
                 <= MaxRunLog
          /\ nonceCtr' = nonceCtr + c.used
          /\ run' = [proc |-> [run.proc EXCEPT ![p] =
                                  [pc |-> "planned", src |-> src,
                                   index |-> c.index, events |-> c.events,
                                   prev |-> ZeroHash, k |-> 0, redo |-> redo,
                                   want |-> IF redo THEN run.proc[p].want
                                            ELSE IndexKeys(c.index)]],
                     overlapped |-> \/ run.overlapped
                                    \/ \E q \in Pids \ {p} :
                                           InFlight(run.proc[q])]
    /\ UNCHANGED <<srvSchema, srvKey, srvDirs, keyCtr, srvIndexExists,
                   srvIndex, srvLogExists, srvLog, cli, resp, qres, last, cx, labelDir>>

\* index.csv is written anew
RunWriteIndex(p) ==
    /\ run.proc[p].pc = "planned"
    /\ srvIndexExists' = TRUE
    /\ srvIndex' = run.proc[p].index
    /\ run' = [run EXCEPT !.proc[p].pc = "indexed"]
    /\ UNCHANGED <<srvSchema, srvKey, srvDirs, keyCtr, srvLogExists, srvLog,
                   nonceCtr, cli, resp, qres, last, cx, labelDir>>

\* _append_change_events reads the last hash and opens the log to append
RunOpenLog(p) ==
    /\ run.proc[p].pc = "indexed"
    /\ srvLogExists' = TRUE
    /\ run' = [run EXCEPT !.proc[p].pc = "appending",
                          !.proc[p].prev = prev_hash_of(srvLogExists, srvLog)]
    /\ UNCHANGED <<srvSchema, srvKey, srvDirs, keyCtr, srvIndexExists,
                   srvIndex, srvLog, nonceCtr, cli, resp, qres, last, cx, labelDir>>

\* the next event is written, chained from the hash the run holds
RunAppend(p) ==
    /\ run.proc[p].pc = "appending"
    /\ run.proc[p].k < Len(run.proc[p].events)
    /\ \E line \in {ChainEvents(run.proc[p].prev,
                                 <<run.proc[p].events[run.proc[p].k + 1]>>)[1]} :
          /\ srvLog' = append_line(srvLog, line)
          /\ run' = [run EXCEPT !.proc[p].k = @ + 1,
                                !.proc[p].prev = FromHex(line[4])]
    /\ UNCHANGED <<srvSchema, srvKey, srvDirs, keyCtr, srvIndexExists,
                   srvIndex, srvLogExists, nonceCtr, cli, resp, qres, last, cx, labelDir>>

\* the log is closed and sync_data returns 0
RunFinish(p) ==
    /\ run.proc[p].pc = "appending"
    /\ run.proc[p].k = Len(run.proc[p].events)
    /\ run' = [run EXCEPT !.proc[p] = Idle]
    /\ last' = Cmd("reconcile", 0, run.proc[p].src, "")
    /\ resp' = NoResp
    /\ qres' = NoQuery
    /\ UNCHANGED <<srvVars, cli, cx, labelDir>>

\* the run is interrupted between two of its steps
RunCrash(p) ==
    /\ InFlight(run.proc[p])
    /\ run' = [run EXCEPT !.proc[p].pc = "crashed"]
    /\ UNCHANGED <<srvVars, cli, resp, qres, last, cx, labelDir>>

\* the run is interrupted while it writes index.csv: the file holds the
\* first n rows
RunCrashIndex(p) ==
    /\ run.proc[p].pc = "planned"
    /\ \E n \in 0..(Len(run.proc[p].index) - 1) :
          /\ srvIndexExists' = TRUE
          /\ srvIndex' = SubSeq(run.proc[p].index, 1, n)
    /\ run' = [run EXCEPT !.proc[p].pc = "crashed"]
    /\ UNCHANGED <<srvSchema, srvKey, srvDirs, keyCtr, srvLogExists, srvLog,
                   nonceCtr, cli, resp, qres, last, cx, labelDir>>

\* the hashes that end the lines
LastTokens(lines) == {l[Len(l)] : l \in {m \in Range(lines) : Len(m) > 0}}

\* values a reader may send as hash
ReaderAnchors == LastTokens(srvLog) \cup {"", "xdeadbeef"}

\* GET /sync_data for the dataset, from any client
GetSyncData ==
    \E hash \in ReaderAnchors :
    \E r \in {do_GET(srvLogExists, srvLog, hash)} :
        /\ resp' = [status |-> r.status, label |-> r.label, body |-> r.body,
                    anchor |-> hash]
        /\ last' = Cmd("get", r.status, << >>, "")
        /\ qres' = NoQuery
        /\ UNCHANGED <<srvVars, cli, cx, run, labelDir>>

\* one process that reconciles
RunnerStart == \E src \in DistinctSources : RunStart(1, src)

RunnerWriteIndex == RunWriteIndex(1)

RunnerOpenLog == RunOpenLog(1)

RunnerAppend == RunAppend(1)

RunnerFinish == RunFinish(1)

RunnerCrash == RunCrash(1)

RunnerCrashIndex == RunCrashIndex(1)

\* processes that reconcile with no regard for each other
WriterStart == \E p \in Pids : \E src \in DistinctSources : RunStart(p, src)

WriterWriteIndex == \E p \in Pids : RunWriteIndex(p)

WriterOpenLog == \E p \in Pids : RunOpenLog(p)

WriterAppend == \E p \in Pids : RunAppend(p)

WriterFinish == \E p \in Pids : RunFinish(p)

(***************************************************************************)
(* Client commands (client/cli.py)                                         *)
(***************************************************************************)
\* values a caller may pass as --hash
Anchors == LastTokens(srvLog) \cup LastTokens(cli.log) \cup {"xdeadbeef"}

ClientSync(hash, fault) ==
    \E r \in {cmd_sync_data(cli, srvLogExists, srvLog, hash, FALSE, fault)} :
        /\ Len(r.c.log) <= MaxCliLog \/ hash = ""
        /\ cli' = r.c
        /\ resp' = r.resp
        /\ qres' = NoQuery
        /\ last' = Cmd(IF hash = "" THEN "sync" ELSE "sync_hash", r.rc, << >>, "")
        /\ labelDir' = makedirs(DataName, labelDir)
        /\ UNCHANGED <<srvVars, cx, run>>

\* client-cli sync_data <server> D
ClientSyncData == ClientSync("", "none")

\* client-cli sync_data <server> D, with an I/O failure at one of its steps
ClientSyncDataFails == \E fault \in Faults \ {"none"} : ClientSync("", fault)

\* client-cli sync_data <server> D --hash <h>
ClientSyncDataHash == \E h \in Anchors : ClientSync(h, "none")

Query(x, r, fault, info) ==
    \E q \in {cmd_query(cli, srvSchema, srvKey, srvLogExists, srvLog, x, r,
                        fault, info)} :
        /\ cli' = q.c
        /\ resp' = q.resp
        /\ qres' = [out |-> q.out, meta |-> q.meta, steps |-> q.steps]
        /\ last' = Cmd("query", q.rc, << >>, x)
        /\ labelDir' = makedirs(DataName, labelDir)
        /\ UNCHANGED <<srvVars, cx, run>>

\* client-cli purge_data <server> <name>
\* whether data/<label>/<name> is a directory: a name that leaves
\* data/<label> may meet one
OutDirs(name) ==
    IF name = "../x" THEN BOOLEAN ELSE {out_dir_isdir(name, labelDir)}

ClientPurgeData ==
    \E name \in Names \cup OtherNames :
    \E exists \in OutDirs(name) :
    \E p \in {purge_entry(name, exists, labelDir)} :
        /\ cli' = IF p.labelDir.replica THEN cli ELSE EmptyReplica
        /\ labelDir' = p.labelDir
        /\ resp' = NoResp
        /\ qres' = [NoQuery EXCEPT !.steps = p.steps]
        /\ last' = CmdNamed("purge_data", p.rc, name)
        /\ UNCHANGED <<srvVars, cx, run>>

\* client-cli sync_data <server> <name> for another dataset of the server,
\* whose answer is not modelled: the directory is made before the request
ClientSyncOther ==
    \E name \in OtherNames : \E rc \in {0, 1} :
        /\ labelDir' = makedirs(name, labelDir)
        /\ last' = CmdNamed("sync", rc, name)
        /\ resp' = NoResp
        /\ qres' = NoQuery
        /\ UNCHANGED <<srvVars, cli, cx, run>>

\* client-cli reset_data <server> <name>
ClientResetData ==
    \E name \in Names :
    \E exists \in OutDirs(name) :
    \E s \in {cmd_sync_data(EmptyReplica, srvLogExists, srvLog, "", TRUE,
                             "none")} :
    \E sync \in {IF client_data_name(name) # 0
                  THEN [rc |-> client_data_name(name), steps |-> << >>]
                  ELSE [rc |-> s.rc, steps |-> <<"sync_data">>]} :
    \E p \in {reset_entry(name, exists, labelDir, sync)} :
        /\ cli' = IF name = DataName THEN s.c
                  ELSE IF p.labelDir.replica THEN cli ELSE EmptyReplica
        /\ labelDir' = p.labelDir
        /\ resp' = IF name = DataName THEN s.resp ELSE NoResp
        /\ qres' = [NoQuery EXCEPT !.steps = p.steps]
        /\ last' = CmdNamed("reset_data", p.rc, name)
        /\ UNCHANGED <<srvVars, cx, run>>

\* a command of the server CLI given a name that does not match
BadNameServerCli ==
    \E name \in BadNames :
    \E op \in {"create", "delete", "reconcile", "rekey", "purge"} :
        /\ data_name_type(name) # 0
        /\ last' = CmdNamed(op, data_name_type(name), name)
        /\ resp' = NoResp
        /\ qres' = NoQuery
        /\ UNCHANGED <<srvVars, cli, cx, run, labelDir>>

\* a request to one of the three handlers with a data_type that does not
\* match
BadNameApi ==
    \E name \in BadNames :
    \E op \in {"get", "encryption_type", "evaluate"} :
        /\ api_data_type(name) # 0
        /\ last' = CmdNamed(op, api_data_type(name), name)
        /\ resp' = NoResp
        /\ qres' = NoQuery
        /\ UNCHANGED <<srvVars, cli, cx, run, labelDir>>

\* client-cli sync_data or query given a name that does not match
BadNameClient ==
    \E name \in BadNames :
    \E op \in {"sync", "query"} :
        /\ client_data_name(name) # 0
        /\ last' = CmdNamed(op, client_data_name(name), name)
        /\ resp' = NoResp
        /\ qres' = NoQuery
        /\ UNCHANGED <<srvVars, cli, cx, run, labelDir>>

\* client-cli query <server> D <x>
ClientQuery ==
    \E x \in IOCS : \E r \in 1..(GroupOrder - 1) :
        Query(x, r, "none", do_GET_encryption_type(srvSchema).info)

\* the blinding scalars to consider for a query: all of them when the query
\* gets to draw one, a single one (never drawn) when it stops before
Scalars(fault, info) ==
    IF cmd_sync_data(cli, srvLogExists, srvLog, "", FALSE, fault).rc # 0
       \/ info # ExpectedInfo
    THEN {1}
    ELSE 1..(GroupOrder - 1)

\* client-cli query, with an I/O failure at one of the steps of its sync
ClientQueryFails ==
    \E x \in IOCS : \E fault \in Faults \ {"none"} :
        LET info == do_GET_encryption_type(srvSchema).info
        IN  \E r \in Scalars(fault, info) : Query(x, r, fault, info)

\* client-cli query against a server that describes another protocol
ClientQueryMismatch ==
    \E x \in IOCS : \E info \in Infos \ {ExpectedInfo} :
        \E r \in Scalars("none", info) : Query(x, r, "none", info)

\* an evaluate request sent by any client
PostEvaluate ==
    \E B \in PointBytes :
        \E ev \in {do_POST(srvSchema, srvKey, B)} :
            /\ last' = Cmd("evaluate", ev.status, << >>, ToString(B))
            /\ resp' = NoResp
            /\ qres' = [out |-> "evaluated",
                        meta |-> IF ev.status = 200 THEN ToString(ev.evaluated)
                                 ELSE "",
                        steps |-> <<"oprf_evaluate">> \o ev.steps]
            /\ UNCHANGED <<srvVars, cli, cx, run, labelDir>>

\* the server's commands alone, on every source
NextServer ==
    \/ ServerSync
    \/ ServerRekey
    \/ ServerPurge

SpecServer == Init /\ [][NextServer]_vars

\* the server's data commands on sources of well-formed records
NextServerPlain ==
    \/ ServerSyncPlain
    \/ ServerRekeyPlain
    \/ ServerPurge

SpecServerPlain == Init /\ [][NextServerPlain]_vars

\* every administrative command
NextAdmin ==
    \/ ServerCreate
    \/ ServerDelete
    \/ ServerSyncPlain
    \/ ServerRekeyPlain
    \/ ServerPurge

SpecAdmin == Init /\ [][NextAdmin]_vars

\* a dataset as created, or one whose schema.json names an algorithm that
\* create_source does not offer
InitFaults ==
    /\ srvSchema \in {"classic", "psi"}
    /\ srvKey = 1
    /\ srvDirs = BothDirs
    /\ keyCtr = 1
    /\ srvIndexExists = FALSE
    /\ srvIndex = << >>
    /\ srvLogExists = FALSE
    /\ srvLog = << >>
    /\ nonceCtr = 0
    /\ run = NoRuns
    /\ labelDir = NoLabelDir
    /\ cli = EmptyReplica
    /\ resp = NoResp
    /\ qres = NoQuery
    /\ last = Cmd("create", 0, << >>, "")
    /\ cx = NoExchange

\* datasets created and removed, and sync runs, failing ones included
NextFaults ==
    \/ ServerCreate
    \/ ServerDelete
    \/ ServerSyncPlain
    \/ ServerSyncFaulty
    \/ ServerPurge

SpecFaults == InitFaults /\ [][NextFaults]_vars

\* a client that holds replicas of several datasets of one server
NextLabel ==
    \/ ServerSyncPlain
    \/ ClientSyncData
    \/ ClientSyncOther
    \/ ClientPurgeData

SpecLabel == Init /\ [][NextLabel]_vars

\* reconciles from every source, and a client that syncs
NextMeta ==
    \/ ServerSync
    \/ ClientSyncData

SpecMeta == Init /\ [][NextMeta]_vars

\* every administrative command, also on a dataset whose schema names an
\* algorithm that is neither classic nor ot
SpecAdminAny == InitFaults /\ [][NextAdmin]_vars

\* commands given any dataset name
NextNames ==
    \/ ServerSyncPlain
    \/ ClientSyncData
    \/ BadNameServerCli
    \/ BadNameApi
    \/ BadNameClient
    \/ ClientPurgeData
    \/ ClientResetData

SpecNames == Init /\ [][NextNames]_vars

\* one reconciler that may be interrupted and run again
NextCrash ==
    \/ RunnerStart
    \/ RunnerWriteIndex
    \/ RunnerOpenLog
    \/ RunnerAppend
    \/ RunnerFinish
    \/ RunnerCrash
    \/ RunnerCrashIndex

SpecCrash == Init /\ [][NextCrash]_vars

\* one reconciler, and readers of the change log
NextReaders ==
    \/ RunnerStart
    \/ RunnerWriteIndex
    \/ RunnerOpenLog
    \/ RunnerAppend
    \/ RunnerFinish
    \/ GetSyncData

SpecReaders == Init /\ [][NextReaders]_vars

\* two reconcilers on the same dataset
NextWriters ==
    \/ WriterStart
    \/ WriterWriteIndex
    \/ WriterOpenLog
    \/ WriterAppend
    \/ WriterFinish

SpecWriters == Init /\ [][NextWriters]_vars

\* sync and rekey runs on a created dataset, failing ones included
NextExit ==
    \/ ServerSyncPlain
    \/ ServerSyncFaulty
    \/ ServerRekeyPlain
    \/ ServerRekeyFaulty

SpecExit == Init /\ [][NextExit]_vars

\* a dataset that is created, removed and rekeyed, and evaluate requests
NextEvaluate ==
    \/ ServerCreate
    \/ ServerDelete
    \/ ServerRekeyPlain
    \/ PostEvaluate

SpecEvaluate == Init /\ [][NextEvaluate]_vars

\* server and client commands
Next ==
    \/ ServerSyncPlain
    \/ ServerRekeyPlain
    \/ ServerPurge
    \/ ClientSyncData
    \/ ClientSyncDataFails
    \/ ClientSyncDataHash
    \/ ClientQuery

Spec == Init /\ [][Next]_vars

\* reconciles and rekeys only on the server
NextRR ==
    \/ ServerSyncPlain
    \/ ServerRekeyPlain
    \/ ClientSyncData
    \/ ClientSyncDataFails
    \/ ClientQuery

SpecRR == Init /\ [][NextRR]_vars

\* reconciles, and a client that syncs from any anchor
NextAnchor ==
    \/ ServerSyncPlain
    \/ ClientSyncData
    \/ ClientSyncDataHash

SpecAnchor == Init /\ [][NextAnchor]_vars

\* reconciles only, and a client that syncs from its own anchor
NextDelta ==
    \/ ServerSyncPlain
    \/ ClientSyncData
    \/ ClientSyncDataFails

SpecDelta == Init /\ [][NextDelta]_vars

\* a dataset that is reconciled, and a client that queries, also through
\* failures and against other servers
NextQuery ==
    \/ ServerSyncPlain
    \/ ClientQuery
    \/ ClientQueryFails
    \/ ClientQueryMismatch

SpecQuery == Init /\ [][NextQuery]_vars

(***************************************************************************)
(* One record through the OPRF and the encryption, a step at a time: the   *)
(* server evaluates and encrypts (ioc, metadata) under its key; a client   *)
(* blinds its input, the server evaluates the blinded point, the client    *)
(* unblinds and finalizes, then decrypts the record's enc_meta.            *)
(***************************************************************************)
CxIocs == IOCS \cup {"c"}

CxNames == {DataName, "E"}

\* the inputs: the key and the record, the client's scalar, and the IOC the
\* client passes as associated data
CxInputs ==
    [k : 1..(GroupOrder - 1), x : CxIocs, dn : CxNames, meta : METAS,
     r : 1..(GroupOrder - 1), x2 : CxIocs]

CxStart(in) ==
    [stage |-> "start", in |-> in,
     entry |-> [oprf |-> "", nonce |-> "", ct |-> ""],
     B |-> 0, E |-> 0, Q |-> 0, prf |-> "", dec |-> "",
     out |-> [rc |-> 0, out |-> "none", meta |-> ""]]

InitCrypto ==
    /\ srvSchema = "classic"
    /\ srvKey = 1
    /\ srvDirs = BothDirs
    /\ keyCtr = 1
    /\ srvIndexExists = FALSE
    /\ srvIndex = << >>
    /\ srvLogExists = FALSE
    /\ srvLog = << >>
    /\ nonceCtr = 0
    /\ run = NoRuns
    /\ labelDir = NoLabelDir
    /\ cli = EmptyReplica
    /\ resp = NoResp
    /\ qres = NoQuery
    /\ last = Cmd("create", 0, << >>, "")
    /\ cx \in {CxStart(in) : in \in CxInputs}

CxFrame == UNCHANGED <<srvVars, cli, resp, qres, last, run, labelDir>>

\* the reconciler evaluates and encrypts the record
CxServerEncrypt ==
    /\ cx.stage = "start"
    /\ cx' = [cx EXCEPT !.stage = "stored",
                        !.entry = evaluated_entry(cx.in.k, cx.in.x, cx.in.dn,
                                                  cx.in.meta, 1)]
    /\ CxFrame

\* cmd_query, steps 2 and 3: hash to the group and blind
CxClientBlind ==
    /\ cx.stage = "stored"
    /\ cx' = [cx EXCEPT !.stage = "blinded",
                        !.B = ristretto_scalarmult(cx.in.r,
                                  ristretto_hash_to_group(cx.in.dn, cx.in.x))]
    /\ CxFrame

\* POST /oprf_evaluate
CxServerEvaluate ==
    /\ cx.stage = "blinded"
    /\ cx' = [cx EXCEPT !.stage = "evaluated",
                        !.E = do_POST("classic", cx.in.k, cx.B).evaluated]
    /\ CxFrame

\* cmd_query, steps 5 and 6: unblind and finalize
CxClientFinalize ==
    /\ cx.stage = "evaluated"
    /\ LET Q == ristretto_scalarmult(ristretto_scalar_invert(cx.in.r), cx.E)
       IN  cx' = [cx EXCEPT !.stage = "finalized",
                            !.Q = Q,
                            !.prf = oprf_finalize(cx.in.dn, cx.in.x, Q)]
    /\ CxFrame

\* cmd_query, step 8, on the record's enc_meta with x2 as associated data
CxClientDecrypt ==
    /\ cx.stage = "finalized"
    /\ LET enc == enc_meta_of(cx.entry)
           c   == FindChar(enc, ":", 1)
       IN  cx' = [cx EXCEPT
                    !.stage = "done",
                    !.dec = decrypt_metadata_from_prf_and_q(
                                cx.in.dn, cx.in.x2, cx.prf, cx.Q,
                                FromHex(SubSeq(enc, 1, c - 1)),
                                FromHex(SubSeq(enc, c + 1, Len(enc)))),
                    !.out = query_decrypt(cx.in.dn, cx.in.x2, cx.prf, cx.Q,
                                          enc)]
    /\ CxFrame

NextCrypto ==
    \/ CxServerEncrypt
    \/ CxClientBlind
    \/ CxServerEvaluate
    \/ CxClientFinalize
    \/ CxClientDecrypt

SpecCrypto == InitCrypto /\ [][NextCrypto]_vars

\* a dataset whose index was left by an earlier version: rows without
\* encrypted metadata (ioc,prf), without ciphertext (ioc,prf,nonce), repeated
LegacyPrf(x) == Hex(evaluate_oprf_ristretto255_components(1, x, DataName).prf)

LegacyIndexes ==
    { << <<"a", LegacyPrf("a")>> >>,
      << <<"a", LegacyPrf("a")>>, <<"b", LegacyPrf("b"), Hex("n0")>> >>,
      << <<"b", LegacyPrf("b")>>, <<"b", LegacyPrf("b")>> >> }

InitAny ==
    /\ srvSchema = "classic"
    /\ srvKey = 1
    /\ srvDirs = BothDirs
    /\ keyCtr = 1
    /\ srvIndex \in {<< >>} \cup LegacyIndexes
    /\ srvIndexExists = (srvIndex # << >>)
    /\ srvLogExists = FALSE
    /\ srvLog = << >>
    /\ nonceCtr = 0
    /\ run = NoRuns
    /\ labelDir = NoLabelDir
    /\ cli = EmptyReplica
    /\ resp = NoResp
    /\ qres = NoQuery
    /\ last = Cmd("create", 0, << >>, "")
    /\ cx = NoExchange

SpecServerAny == InitAny /\ [][NextServer]_vars

(***************************************************************************)
(* Properties                                                              *)
(***************************************************************************)
LineHash(prev_hash, line) ==
    Hex(SHA512(prev_hash \o "|" \o line[1] \o "|" \o line[2] \o "|" \o line[3]))

ChainOK(log) ==
    \A i \in 1..Len(log) :
        /\ Len(log[i]) = 4
        /\ log[i][4] = LineHash(IF i = 1 THEN ZeroHash ELSE FromHex(log[i-1][4]),
                                log[i])

\* C1: in every state reached by reconciles, rekeys and purges run one at a
\* time, every line of the server change log carries the SHA-512 of the
\* previous line's hash (64 zero bytes for the first line), its event, its
\* OPRF value and its encrypted metadata.
C1_HashChainIntegrity == ChainOK(srvLog)

C1_Witness ==
    /\ last.op = "reconcile"
    /\ Len(srvLog) >= 3
    /\ \E i \in 1..Len(srvLog) : srvLog[i][1] = "REMOVED"
    /\ ChainOK(srvLog)

\* lines of the log whose final token is the anchor
Matching(log, anchor) ==
    {i \in 1..Len(log) : Len(log[i]) > 0 /\ log[i][Len(log[i])] = anchor}

Min(S) == CHOOSE i \in S : \A j \in S : i <= j

\* C2: when the anchor of a served sync request is the final token of a log
\* line, the answer is labeled delta and its body is exactly the lines after
\* the first such line; for the last line's hash the body is empty.
C2_TailRetrieval ==
    (resp.status = 200 /\ Matching(srvLog, resp.anchor) # {}) =>
        /\ resp.label = "delta"
        /\ resp.body = SubSeq(srvLog, Min(Matching(srvLog, resp.anchor)) + 1,
                              Len(srvLog))
        /\ (resp.anchor = srvLog[Len(srvLog)][4] => resp.body = << >>)

C2_Witness ==
    /\ last.op = "sync_hash"
    /\ resp.status = 200
    /\ resp.label = "delta"
    /\ Len(resp.body) >= 1
    /\ Len(srvLog) >= Len(resp.body) + 2
    /\ resp.anchor = srvLog[Len(srvLog) - Len(resp.body)][4]

\* C3: a served sync request without anchor, or with an anchor that is the
\* final token of no log line, is answered with the entire log labeled full.
C3_FullWhenNoMatch ==
    (resp.status = 200 /\ Matching(srvLog, resp.anchor) = {}) =>
        /\ resp.label = "full"
        /\ resp.body = srvLog

C3_Witness ==
    /\ last.op = "sync_hash"
    /\ resp.status = 200
    /\ resp.anchor = "xdeadbeef"
    /\ resp.label = "full"
    /\ Len(resp.body) >= 2
    /\ cli.log = srvLog

\* C4: a client that starts with an unanchored full sync and then only syncs
\* from the last hash of its local log, with reconciles in between, holds
\* after every successful sync a local log identical to the server's.
C4_DeltaDeterminism ==
    (last.op = "sync" /\ last.rc = 0) => cli.log = srvLog

C4_Witness ==
    /\ last.op = "sync"
    /\ last.rc = 0
    /\ resp.label = "delta"
    /\ Len(resp.body) >= 1
    /\ Len(cli.log) > Len(resp.body)
    /\ cli.log = srvLog

Pairs(d) == {<<d[i][1], d[i][2]>> : i \in 1..Len(d)}

IndexPairs(index) ==
    {<<r[2], r[3] \o ":" \o r[4]>> : r \in {q \in Range(index) : Len(q) = 4}}

\* C5: after completed reconciles and rekeys, replaying the whole change log
\* gives the (prf, enc_meta) pairs of the index records that carry encrypted
\* metadata.
C5_ReplayConvergence ==
    (last.op \in {"reconcile", "rekey"}) =>
        Pairs(ApplyEvents(<< >>, srvLog)) = IndexPairs(srvIndex)

\* C6: a reconcile run a second time against the unchanged source appends
\* no line to the change log and leaves the index unchanged.
C6_IdempotentReconcile ==
    [][(last.op = "reconcile" /\ last'.op = "reconcile" /\ last'.src = last.src)
        => (srvLog' = srvLog /\ srvIndex' = srvIndex)]_vars

\* a reconcile of a source with a repeated IOC and a malformed line, or one
\* that upgraded legacy rows, has completed
C6_Witness ==
    /\ last.op = "reconcile"
    /\ srvIndex # << >>
    /\ \A r \in Range(srvIndex) : Len(r) = 4
    /\ \/ Len(last.src) > Cardinality(Range(current_iocs_of(last.src)))
       \/ Len(srvLog) < Len(srvIndex)

IndexIocs(index) == Range(existing_order_of(index))

\* the plaintext encrypted into the index record of x under the key sk
PlainOf(index, sk, x) ==
    LET e == existing_map_of(index)[x]
        c == evaluate_oprf_ristretto255_components(sk, x, DataName)
    IN  decrypt_metadata_from_prf_and_q(DataName, x, c.prf, c.q,
                                        FromHex(e.nonce), FromHex(e.ct))

\* C7: a completed query for x reports a match exactly when x is in the
\* server's index, and then prints the plaintext encrypted into x's record.
C7_QueryCorrectness ==
    (last.op = "query" /\ last.rc = 0) =>
        /\ (qres.out = "match") <=> (last.ioc \in IndexIocs(srvIndex))
        /\ qres.out = "match" => qres.meta = PlainOf(srvIndex, srvKey, last.ioc)

RekeyLogOK(log, sk, src) ==
    LET recs == iter_iocs_from_file(src)
    IN  /\ Len(log) = Len(recs)
        /\ \A i \in 1..Len(log) :
              /\ Len(log[i]) = 4
              /\ log[i][1] = "ADDED"
              /\ log[i][2] = Hex(evaluate_oprf_ristretto255_components(
                                     sk, recs[i][1], DataName).prf)
        /\ log # << >> => log[1][4] = LineHash(ZeroHash, log[1])

\* C8: after a completed rekey the change log is one ADDED line per record
\* of the source, in source order, with no line of the previous log, and its
\* first line is chained from the zero seed.
C8_RekeyLog ==
    [][last'.op = "rekey" =>
        /\ RekeyLogOK(srvLog', srvKey', last'.src)
        /\ Range(srvLog') \cap Range(srvLog) = {}]_vars

C8_Witness ==
    /\ last.op = "rekey"
    /\ Len(srvLog) >= 1
    /\ nonceCtr > Len(srvLog)
    /\ RekeyLogOK(srvLog, srvKey, last.src)

\* C9: after a completed rekey no hash of the previous change log is on a
\* line of the new log, and a sync request with any of them is answered full.
C9_RekeyForcesFull ==
    [][last'.op = "rekey" =>
        /\ LastTokens(srvLog') \cap LastTokens(srvLog) = {}
        /\ \A h \in LastTokens(srvLog) :
              do_GET(srvLogExists', srvLog', h).label = "full"]_vars

C9_Witness ==
    /\ last.op = "rekey"
    /\ Len(srvLog) = 1
    /\ nonceCtr = 2
    /\ do_GET(srvLogExists, srvLog, "xdeadbeef").label = "full"

\* C10: when a successful sync was answered full, the local log is exactly
\* the response body and the active set is the replay of that body.
C10_FullIsReset ==
    (last.op \in {"sync", "sync_hash"} /\ last.rc = 0 /\ resp.label = "full") =>
        /\ cli.log = resp.body
        /\ Pairs(load_active_index(cli.activeExists, cli.active))
             = Pairs(ApplyEvents(<< >>, resp.body))

\* C11: when a query reaches its match lookup, the active set it looks the
\* PRF up in holds exactly the pairs that replaying the whole local change
\* log gives, also when active_index.csv was missing before the query's sync.
C11_QueryUsesReplay ==
    (last.op = "query" /\ qres.out \in {"nomatch", "match", "decfail"})
        => Pairs(match_active(cli)) = Pairs(ApplyEvents(<< >>, cli.log))

\* C12: every query sends its sync request first and nothing before it; when
\* that sync fails, the query exits with the sync's exit code and sends
\* neither the describe nor the evaluate request.
C12_SyncFirst ==
    [][last'.op = "query" =>
       LET st == qres'.steps
       IN  /\ Len(st) >= 1
           /\ st[1] = "sync_data"
           /\ \A i \in 2..Len(st) : st[i] # "sync_data"
           /\ \A fault \in Faults :
                LET s == cmd_sync_data(cli, srvLogExists, srvLog, "", FALSE,
                                       fault)
                IN  (/\ s.rc # 0
                     /\ cli' = s.c
                     /\ resp' = s.resp
                     /\ \E r \in 1..(GroupOrder - 1) : \E info \in Infos :
                           Query(last'.ioc, r, fault, info))
                    => (last'.rc = s.rc /\ st = <<"sync_data">>)]_vars

\* a query whose sync was answered by the server and then failed locally
C12_Witness ==
    /\ last.op = "query"
    /\ last.rc = 1
    /\ resp.status = 200
    /\ resp.body # << >>
    /\ qres.steps = <<"sync_data">>

\* C13: a query that is answered an encryption or a suite other than the
\* expected strings fails, draws no blinding scalar and sends no evaluate
\* request.
C13_MismatchAborts ==
    [][last'.op = "query" =>
       \/ /\ last'.rc # 0
          /\ \A i \in 1..Len(qres'.steps) :
                qres'.steps[i] \notin {"scalar_random", "oprf_evaluate"}
       \/ \A fault \in Faults :
             LET s == cmd_sync_data(cli, srvLogExists, srvLog, "", FALSE, fault)
             IN  \A info \in Infos \ {ExpectedInfo} :
                   ~ /\ cli' = s.c
                     /\ resp' = s.resp
                     /\ \E r \in 1..(GroupOrder - 1) :
                           Query(last'.ioc, r, fault, info)]_vars

\* a query stopped by the answer to its describe request, after its sync
\* succeeded and with the dataset defined on the server
C13_Witness ==
    /\ last.op = "query"
    /\ last.rc = 1
    /\ srvSchema = "classic"
    /\ cli.activeExists
    /\ qres.steps = <<"sync_data", "encryption_type">>

\* C14: for every key, input, dataset name and non-zero blinding scalar, the
\* point the client gets by unblinding the server's evaluation is k*H1(x),
\* and the PRF it finalizes is the one the reconciler stored for x under k.
C14_OprfCommutes ==
    cx.stage \in {"finalized", "done"} =>
        /\ cx.Q = ristretto_scalarmult(
                      cx.in.k, ristretto_hash_to_group(cx.in.dn, cx.in.x))
        /\ Hex(cx.prf) = cx.entry.oprf

\* an exchange finalized with a key and a blinding scalar other than 1
C14_Witness ==
    /\ cx.stage = "finalized"
    /\ cx.in.k = 3
    /\ cx.in.r = 2
    /\ cx.B # cx.Q

\* C15: decrypting a stored record with the PRF and Q derived from the same
\* key and IOC, and with that IOC as associated data, returns the metadata
\* that was encrypted.
C15_RoundTrip ==
    (cx.stage = "done" /\ cx.in.x2 = cx.in.x) =>
        /\ cx.dec = cx.in.meta
        /\ cx.out = [rc |-> 0, out |-> "match", meta |-> cx.in.meta]

C15_Witness ==
    /\ cx.stage = "done"
    /\ cx.in.x2 = cx.in.x
    /\ cx.in.dn = "E"
    /\ cx.dec = "m2"

\* C16: decrypting a record with the right key but with an IOC other than
\* the one it was encrypted for as associated data fails with AuthFailure,
\* and the query's decryption step reports a failure and no metadata.
C16_AadBinding ==
    (cx.stage = "done" /\ cx.in.x2 # cx.in.x) =>
        /\ cx.dec = AuthFailure
        /\ cx.out = [rc |-> 1, out |-> "decfail", meta |-> ""]

C16_Witness ==
    /\ cx.stage = "done"
    /\ cx.in.x = "a"
    /\ cx.in.x2 = "b"
    /\ cx.out.out = "decfail"

IndexPrfs(index) == {row[2] : row \in Range(IndexRows(index))}

\* C17: a completed rekey leaves a private key different from the one before
\* it, and no prf_hex of the index after it is a prf_hex of the index before
\* it, whatever the source.
C17_RekeyUnlinkable ==
    [][(last'.op = "rekey" /\ last'.rc = 0) =>
          /\ srvKey' # srvKey
          /\ IndexPrfs(srvIndex') \cap IndexPrfs(srvIndex) = {}]_vars

\* a rekey has completed after records had been evaluated under the old key
C17_Witness ==
    /\ last.op = "rekey"
    /\ last.rc = 0
    /\ srvKey = 2
    /\ Len(srvIndex) >= 1
    /\ nonceCtr > Len(srvIndex)

IsPrefix(s, t) == Len(s) <= Len(t) /\ SubSeq(t, 1, Len(s)) = s

\* C18 as stated: every administrative command other than rekey (create,
\* delete, reconcile, purge) leaves the lines the change log held as an
\* unmodified prefix of the lines it holds afterwards.
C18_AppendOnlyButRekey ==
    [][last'.op \in {"create", "delete", "reconcile", "purge"} =>
          IsPrefix(srvLog, srvLog')]_vars

\* C18 amended: create, delete and reconcile leave the lines the change log
\* held as an unmodified prefix of the lines it holds afterwards; purge
\* removes the log with the rest of the dataset's data directory; only rekey
\* and purge remove or rewrite lines.
C18_AppendOnlyButRekeyAndPurge ==
    [][/\ last'.op \in {"create", "delete", "reconcile"} =>
             IsPrefix(srvLog, srvLog')
       /\ last'.op = "purge" => (srvLog' = << >> /\ ~srvLogExists')
       /\ ~IsPrefix(srvLog, srvLog') => last'.op \in {"rekey", "purge"}]_vars

\* a reconcile has appended an ADDED and a REMOVED line to a log that already
\* held a line
C18_Witness ==
    /\ last.op = "reconcile"
    /\ last.rc = 0
    /\ Len(srvLog) = 3
    /\ srvLog[3][1] = "REMOVED"

RemovedAfterAdded(log) ==
    \A i \in 1..Len(log) :
        log[i][1] = "REMOVED" =>
            \E j \in 1..(i - 1) :
                /\ log[j][1] = "ADDED"
                /\ log[j][2] = log[i][2]
                /\ \A k \in (j + 1)..(i - 1) :
                      ~(log[k][1] = "REMOVED" /\ log[k][2] = log[i][2])

\* C19: in every change log reached from a freshly created dataset by
\* completed reconciles, rekeys and purges, each REMOVED line for a PRF value
\* comes after an ADDED line for that value with no REMOVED line for it in
\* between.
C19_RemovedAfterAdded == RemovedAfterAdded(srvLog)

\* C20: an evaluate request with a valid name and a 32-byte blinded value
\* for a dataset without schema is answered 404 and private.key is not read,
\* also when a key file for that name exists.
C20_NoSchemaNoKeyRead ==
    (last.op = "evaluate" /\ srvSchema = None) =>
        /\ last.rc = 404
        /\ "read_key" \notin Range(qres.steps)
        /\ qres.meta = ""

\* an evaluate request for a dataset whose schema is gone and whose key file
\* is still there
C20_Witness ==
    /\ last.op = "evaluate"
    /\ srvSchema = None
    /\ srvKey >= 1
    /\ last.rc = 404

\* C21: an evaluate request on an existing dataset whose 32-byte blinded
\* value is rejected by the scalar multiplication is answered 400 and never
\* with a success response.
C21_InvalidPointIs400 ==
    (/\ last.op = "evaluate"
     /\ srvSchema # None
     /\ srvKey >= 1
     /\ \E B \in PointBytes : /\ last.ioc = ToString(B)
                               /\ scalarmult_rejects(srvKey, B))
        => last.rc = 400

\* C22: create_source succeeds only when neither schema.json, private.key,
\* the schema directory nor the secrets directory exists; when one of them
\* exists it exits with code 1 and leaves schema and key as they were; a
\* create after a successful delete, with no write failing, succeeds.
C22_CreateOnlyFresh ==
    [][/\ last'.op = "create" =>
            /\ last'.rc \in {0, 1}
            /\ last'.rc = 0 =>
                   /\ srvSchema = None
                   /\ srvKey = 0
                   /\ ~srvDirs.schemas
                   /\ ~srvDirs.secrets
                   /\ srvSchema' # None
                   /\ srvKey' # 0
            /\ (srvSchema # None \/ srvKey # 0 \/ srvDirs.schemas
                    \/ srvDirs.secrets) =>
                   /\ last'.rc = 1
                   /\ srvSchema' = srvSchema
                   /\ srvKey' = srvKey
       /\ (last.op = "delete" /\ last.rc = 0) =>
            \A alg \in {"classic", "ot"} :
                Create(alg, "none") => last'.rc = 0]_vars

\* a dataset created again after its removal
C22_Witness ==
    /\ last.op = "create"
    /\ last.rc = 0
    /\ srvSchema = "classic"
    /\ srvKey = 2
    /\ srvDirs = BothDirs

\* C23: schema.json exists for a dataset if and only if private.key exists
\* for it, in every state another operation can observe, also after a create
\* or delete that failed between its file steps.
C23_SchemaIffKey == (srvSchema # None) <=> (srvKey # 0)

\* C24: a reconcile whose preconditions fail exits 1 for a missing schema,
\* 2 for algorithm ot or any other non-classic algorithm, 1 for a missing
\* private key and 1 for a missing source file, and neither index.csv nor
\* changes.log is created or modified.
C24_FailedReconcile ==
    [][last'.op = "reconcile" =>
         LET code == IF srvSchema = None THEN 1
                     ELSE IF srvSchema # "classic" THEN 2
                     ELSE IF srvKey = 0 THEN 1
                     ELSE IF last'.ioc = "nofile" THEN 1
                     ELSE 0
         IN  code # 0 =>
                 /\ last'.rc = code
                 /\ srvIndexExists' = srvIndexExists
                 /\ srvIndex' = srvIndex
                 /\ srvLogExists' = srvLogExists
                 /\ srvLog' = srvLog]_vars

\* a reconcile refused for its algorithm or its missing source file while
\* index and change log hold entries
C24_Witness ==
    /\ last.op = "reconcile"
    /\ srvLog # << >>
    /\ srvIndex # << >>
    /\ \/ last.rc = 2 /\ srvSchema \in {"ot", "psi"}
       \/ last.rc = 1 /\ srvSchema = "classic" /\ srvKey # 0
              /\ last.ioc = "nofile"

\* C25: reconcile and rekey exit with code 3 only when the crypto library is
\* unavailable; a primitive that fails (scalar multiplication rejecting,
\* AEAD encryption failing) gives another non-zero code.
C25_ExitThreeMeansNoLibrary ==
    (last.op \in {"reconcile", "rekey"} /\ last.rc = 3) => last.ioc = "nolib"

\* C27: when a client sync was interrupted after one of its write steps, the
\* next successful sync leaves the client with a local log equal to the
\* server's log and an active set equal to the replay of that log.
C27_SyncRecovers ==
    [][(/\ last.op = "sync"
        /\ last.rc = 1
        /\ resp.status = 200
        /\ resp.body # << >>
        /\ last'.op = "sync"
        /\ last'.rc = 0) =>
           /\ cli'.log = srvLog'
           /\ Pairs(load_active_index(cli'.activeExists, cli'.active))
                  = Pairs(ApplyEvents(<< >>, cli'.log))]_vars

\* C26: when a reconcile was interrupted at any point and is run again to
\* completion against the same source, the index has the rows of an
\* uninterrupted run and the replay of the change log equals that index.
C26_ReconcileRecovers ==
    [][(/\ run.proc[1].pc = "appending"
        /\ run.proc[1].redo
        /\ run'.proc[1].pc = "idle") =>
           /\ IndexKeys(srvIndex') = run.proc[1].want
           /\ Pairs(ApplyEvents(<< >>, srvLog')) = IndexPairs(srvIndex')]_vars

\* the change log once the run in flight has appended all its events
FinalLog ==
    LET l == run.proc[1]
    IN  srvLog \o
        (IF l.pc = "appending"
         THEN ChainEvents(l.prev, SubSeq(l.events, l.k + 1, Len(l.events)))
         ELSE IF l.pc \in {"planned", "indexed"}
         THEN ChainEvents(prev_hash_of(srvLogExists, srvLog), l.events)
         ELSE << >>)

\* C28: a sync request served while one reconcile appends its events line
\* by line returns, for any anchor, the tail of a prefix of the final log:
\* the lines after the first line of that prefix that ends with the anchor,
\* or the whole prefix, in log order and without a gap.
C28_PrefixConsistentReads ==
    resp.status = 200 =>
        \E n \in 0..Len(FinalLog) :
            LET prefix == SubSeq(FinalLog, 1, n)
                m      == IF resp.anchor # ""
                          THEN FirstMatch(prefix, resp.anchor, 1) ELSE 0
            IN  resp.body = SubSeq(prefix, m + 1, n)

\* a request served between the first and the last line of a run
C28_Witness ==
    /\ resp.status = 200
    /\ last.op = "get"
    /\ run.proc[1].pc = "appending"
    /\ run.proc[1].k >= 1
    /\ run.proc[1].k < Len(run.proc[1].events)
    /\ resp.body # << >>
    /\ resp.body[Len(resp.body)] = srvLog[Len(srvLog)]

\* two lines with the same event for the same PRF value and no line for
\* that value between them
SameChangeTwice(log) ==
    \E i, j \in 1..Len(log) :
        /\ i < j
        /\ log[i][1] = log[j][1]
        /\ log[i][2] = log[j][2]
        /\ \A k \in (i + 1)..(j - 1) : log[k][2] # log[i][2]

\* C29: the hash chain of the change log is whole, and no change is logged
\* twice, as long as no two reconciles were in flight at the same time; with
\* two reconciles interleaving their steps a log is reached with a line not
\* chained from the line before it and with the same change logged twice.
C29_SingleWriterOnly ==
    ~run.overlapped => (ChainOK(srvLog) /\ ~SameChangeTwice(srvLog))

\* two interleaved reconciles left a broken chain and a change logged twice
C29_Witness ==
    /\ run.overlapped
    /\ ~ChainOK(srvLog)
    /\ SameChangeTwice(srvLog)
    /\ \A p \in Pids : run.proc[p].pc = "idle"

\* C30: every operation that takes a dataset name rejects a name that does
\* not match [A-Za-z0-9]+ with an error, before it reads, creates, modifies
\* or deletes any file.
C30_NameValidated ==
    last.name \in BadNames =>
        /\ last.rc \notin {0, 200}
        /\ qres.steps = << >>

\* C31: server purge_data removes index.csv and changes.log and exits 0,
\* whether or not they exist, and leaves schema.json, private.key and their
\* directories as they were
C31_PurgeIdempotentFramed ==
    [][last'.op = "purge" /\ last'.name = DataName =>
        /\ last'.rc = 0
        /\ ~srvIndexExists' /\ srvIndex' = << >>
        /\ ~srvLogExists' /\ srvLog' = << >>
        /\ srvSchema' = srvSchema
        /\ srvKey' = srvKey
        /\ srvDirs' = srvDirs]_vars

\* a purge of a dataset that was reconciled, its schema and key in place
C31_Witness ==
    /\ last.op = "purge" /\ last.rc = 0
    /\ nonceCtr > 0
    /\ ~srvIndexExists /\ ~srvLogExists
    /\ srvSchema = "classic" /\ srvKey # 0

\* C32: client purge_data <server> <name> removes the replica of <name>,
\* leaves the replicas of the other datasets under data/<label> as they
\* were, and removes data/<label> exactly when no replica remains under it
C32_PurgeOneReplica ==
    [][last'.op = "purge_data" =>
        /\ labelDir'.others = labelDir.others \ {last'.name}
        /\ IF last'.name = DataName
           THEN ~labelDir'.replica /\ cli' = EmptyReplica
           ELSE labelDir'.replica = labelDir.replica /\ cli' = cli
        /\ labelDir'.exists =
              (labelDir.exists /\ (labelDir'.replica \/ labelDir'.others # {}))
      ]_vars

\* C33: a client sync whose request fails, or is answered with a status
\* other than 200, exits non-zero and leaves changes.log and
\* active_index.csv as they were
C33_FailedRequestKeepsReplica ==
    [][(/\ last'.op \in {"sync", "sync_hash"}
        /\ last'.name = DataName
        /\ resp'.status # 200) =>
            /\ last'.rc # 0
            /\ cli' = cli]_vars

\* a sync answered 404 after the server's data was purged, by a client
\* that holds a replica
C33_Witness ==
    /\ last.op = "sync" /\ last.rc = 1
    /\ resp.status = 404
    /\ cli.logExists /\ cli.log # << >>
    /\ cli.activeExists

\* the lines a step appended to the server's change log
AppendedLines == SubSeq(srvLog', Len(srvLog) + 1, Len(srvLog'))

\* the IOCs of seq that are not in the set gone, once each, in the order
\* of their first line
Once(seq, gone) ==
    AppendNew(<< >>, SelectSeq(seq, LAMBDA x : x \notin gone))

\* C34: the lines one reconcile appends are one ADDED per IOC that is new
\* in the source, in source order, then one REMOVED per IOC that left the
\* source, in the order of the previous index; upgraded records give no line
C34_EventOrder ==
    [][(last'.op = "reconcile" /\ last'.rc = 0 /\ last'.name = DataName) =>
        LET src   == last'.src
            index == IF srvIndexExists THEN srvIndex ELSE << >>
            new   == Once(current_iocs_of(src), Range(existing_order_of(index)))
            left  == Once(existing_order_of(index), Range(current_iocs_of(src)))
            lines == AppendedLines
        IN  /\ Len(srvLog') >= Len(srvLog)
            /\ Len(lines) = Len(new) + Len(left)
            /\ \A i \in 1..Len(lines) :
                  IF i <= Len(new)
                  THEN /\ lines[i][1] = "ADDED"
                       /\ lines[i][2] =
                             Hex(evaluate_oprf_ristretto255_components(
                                     srvKey, new[i], DataName).prf)
                  ELSE /\ lines[i][1] = "REMOVED"
                       /\ lines[i][2] =
                             existing_map_of(index)[left[i - Len(new)]].oprf
      ]_vars

\* C35: a reconcile whose source names the IOCs of the previous reconcile,
\* with other metadata, appends no line and leaves the index as it was, and
\* a client that syncs gets the active index it would have got before
C35_MetadataSilent ==
    [][(/\ last.op = "reconcile" /\ last.rc = 0
        /\ last'.op = "reconcile" /\ last'.rc = 0
        /\ current_iocs_of(last'.src) = current_iocs_of(last.src)
        /\ current_meta_of(last'.src) # current_meta_of(last.src)) =>
            /\ srvLog' = srvLog
            /\ srvIndex' = srvIndex
            /\ cmd_sync_data(cli, srvLogExists', srvLog', "", FALSE, "none").c
                 = cmd_sync_data(cli, srvLogExists, srvLog, "", FALSE, "none").c
      ]_vars

\* the source gives a the metadata m2, the index holds the encryption of
\* m1 for it, and so does the client, whose log is the server's
C35_Witness ==
    /\ last.op = "reconcile" /\ last.rc = 0
    /\ last.src = << <<"a", "m2">> >>
    /\ cli.log = srvLog /\ srvLog # << >>
    /\ Len(srvIndex) = 1 /\ srvIndex[1][1] = "a"
    /\ srvIndex[1][4] = evaluated_entry(srvKey, "a", DataName, "m1", 1).ct
    /\ nonceCtr = 1
    /\ cli.active = << <<srvIndex[1][2],
                         srvIndex[1][3] \o ":" \o srvIndex[1][4]>> >>

\* C36: a rekey of a dataset without schema exits 1, one of a dataset whose
\* algorithm is not classic exits 2, and both leave the private key, the
\* index and the change log as they were
C36_RekeyValidatesFirst ==
    [][(last'.op = "rekey" /\ last'.name = DataName
        /\ srvSchema # "classic") =>
            /\ last'.rc = IF srvSchema = None THEN 1 ELSE 2
            /\ srvKey' = srvKey
            /\ srvDirs' = srvDirs
            /\ srvIndexExists' = srvIndexExists /\ srvIndex' = srvIndex
            /\ srvLogExists' = srvLogExists /\ srvLog' = srvLog
      ]_vars

\* a rekey refused on a dataset re-created with the algorithm ot over the
\* data of a classic one
C36_Witness ==
    /\ last.op = "rekey" /\ last.rc = 2
    /\ srvSchema = "ot" /\ srvKey = OtKey
    /\ srvIndex # << >> /\ srvLog # << >>

\* C37: after a successful reconcile or rekey every row of the index holds
\* the OPRF of its IOC under the private key of the dataset
C37_IndexUnderCurrentKey ==
    (last.op \in {"reconcile", "rekey"} /\ last.rc = 0
     /\ last.name = DataName) =>
        \A i \in 1..Len(srvIndex) :
            srvIndex[i][2] =
                Hex(evaluate_oprf_ristretto255_components(
                        srvKey, srvIndex[i][1], DataName).prf)

\* C38: after a rekey that exits non-zero, the rows of the index and the
\* lines of the change log hold PRFs computed under the private key on disk
C38_FailedRekeyKeepsKey ==
    (last.op = "rekey" /\ last.rc # 0 /\ last.name = DataName) =>
        /\ \A i \in 1..Len(srvIndex) :
              srvIndex[i][2] =
                  Hex(evaluate_oprf_ristretto255_components(
                          srvKey, srvIndex[i][1], DataName).prf)
        /\ \A i \in 1..Len(srvLog) :
              srvLog[i][2] \in
                  {Hex(evaluate_oprf_ristretto255_components(
                           srvKey, x, DataName).prf) : x \in IOCS}

\* C39: whatever anchors the successful syncs of a client used, its
\* changes.log holds no line twice and is a prefix of the server's log
C39_ReplicaIsPrefix ==
    /\ IsPrefix(cli.log, srvLog)
    /\ \A i, j \in 1..Len(cli.log) : cli.log[i] = cli.log[j] => i = j

\* C40: after a completed reconcile or rekey the index has at most one row
\* per IOC, and the lines the command wrote to the change log have at most
\* one ADDED per IOC
C40_OneRecordPerIoc ==
    [][(last'.op \in {"reconcile", "rekey"} /\ last'.rc = 0
        /\ last'.name = DataName) =>
        LET lines == IF last'.op = "rekey" THEN srvLog' ELSE AppendedLines
            added == SelectSeq(lines, LAMBDA l : l[1] = "ADDED")
        IN  /\ \A i, j \in 1..Len(srvIndex') :
                  srvIndex'[i][1] = srvIndex'[j][1] => i = j
            /\ \A i, j \in 1..Len(added) :
                  added[i][2] = added[j][2] => i = j
      ]_vars

====
